---- MODULE Spec2Model ----
(***************************************************************************)
(* DevLog: the commit store (tracked_repos, git_commits, code_changes,     *)
(* commit_embeddings), the capture pipeline, the embedding index, the      *)
(* function extractor, the four search strategies, the router and the      *)
(* merger.  Text is modelled character by character: a Python str is a     *)
(* sequence of one-character strings, so that substring tests, regular     *)
(* expressions, str.split and str.splitlines are computed, not assumed.    *)
(* Scores are fixed-point numbers scaled by 1000 (0.6 is 600).             *)
(***************************************************************************)
EXTENDS Integers, Sequences, FiniteSets, TLC

(***************************************************************************)
(* Characters and Python str primitives                                    *)
(***************************************************************************)
LowerSeq == <<"a","b","c","d","e","f","g","h","i","j","k","l","m",
              "n","o","p","q","r","s","t","u","v","w","x","y","z">>
UpperSeq == <<"A","B","C","D","E","F","G","H","I","J","K","L","M",
              "N","O","P","Q","R","S","T","U","V","W","X","Y","Z">>
Letters == {LowerSeq[i] : i \in DOMAIN LowerSeq} \cup {UpperSeq[i] : i \in DOMAIN UpperSeq}
Digits == {"0","1","2","3","4","5","6","7","8","9"}
Whitespace == {" ", "\t", "\n"}
WordChars == Letters \cup Digits \cup {"_"}

\* str.lower on one character
Uppers == {UpperSeq[i] : i \in DOMAIN UpperSeq}
ToLower == [c \in Uppers |-> LowerSeq[CHOOSE i \in DOMAIN UpperSeq : UpperSeq[i] = c]]
LowerOf(c) == IF c \in Uppers THEN ToLower[c] ELSE c

\* str.lower
Lower(s) == [i \in 1..Len(s) |-> LowerOf(s[i])]

\* Python `needle in hay` (the empty needle is in every string)
Contains(needle, hay) ==
    \E i \in 0..(Len(hay) - Len(needle)) :
        SubSeq(hay, i + 1, i + Len(needle)) = needle

\* number of leading characters of s, after offset i, that lie in the set cs
RECURSIVE RunLen(_, _, _)
RunLen(s, i, cs) ==
    IF i < Len(s) /\ s[i + 1] \in cs THEN 1 + RunLen(s, i + 1, cs) ELSE 0

\* str.lstrip / str.strip (whitespace)
LStrip(s) == SubSeq(s, RunLen(s, 0, Whitespace) + 1, Len(s))
RECURSIVE RStrip(_)
RStrip(s) ==
    IF Len(s) > 0 /\ s[Len(s)] \in Whitespace THEN RStrip(SubSeq(s, 1, Len(s) - 1)) ELSE s
Strip(s) == RStrip(LStrip(s))

\* str.split(): the maximal runs of non-whitespace characters
RECURSIVE SplitWs(_)
SplitWs(s) ==
    LET t == LStrip(s)
        n == IF t = <<>> THEN 0
             ELSE CHOOSE k \in 1..Len(t) :
                      /\ \A j \in 1..k : t[j] \notin Whitespace
                      /\ (k = Len(t) \/ t[k + 1] \in Whitespace)
    IN  IF t = <<>> THEN <<>>
        ELSE <<SubSeq(t, 1, n)>> \o SplitWs(SubSeq(t, n + 1, Len(t)))

\* str.split('\n'): always at least one piece, a trailing newline gives a last empty piece
RECURSIVE SplitNl(_)
SplitNl(s) ==
    IF \E k \in 1..Len(s) : s[k] = "\n"
    THEN LET k == CHOOSE k \in 1..Len(s) : s[k] = "\n" /\ \A j \in 1..(k - 1) : s[j] # "\n"
         IN  <<SubSeq(s, 1, k - 1)>> \o SplitNl(SubSeq(s, k + 1, Len(s)))
    ELSE <<s>>

\* str.splitlines(): no piece for the empty string, none after a trailing newline
SplitLines(s) ==
    LET p == SplitNl(s)
    IN  IF p[Len(p)] = <<>> THEN SubSeq(p, 1, Len(p) - 1) ELSE p

\* '\n'.join(lines)
RECURSIVE JoinNl(_)
JoinNl(ls) ==
    IF ls = <<>> THEN <<>>
    ELSE IF Len(ls) = 1 THEN ls[1]
    ELSE ls[1] \o <<"\n">> \o JoinNl(Tail(ls))

\* str.count of one character
Count(s, c) == Cardinality({i \in 1..Len(s) : s[i] = c})

\* int() of a run of decimal digits
DigitSeq == <<"0","1","2","3","4","5","6","7","8","9">>
DigitVal(c) == CHOOSE d \in 0..9 : DigitSeq[d + 1] = c
RECURSIVE ParseInt(_)
ParseInt(ds) ==
    IF ds = <<>> THEN 0
    ELSE 10 * ParseInt(SubSeq(ds, 1, Len(ds) - 1)) + DigitVal(ds[Len(ds)])

Max2(a, b) == IF a >= b THEN a ELSE b
Min2(a, b) == IF a <= b THEN a ELSE b

(***************************************************************************)
(* Python re: a backtracking matcher.  A pattern is a sequence of items,   *)
(* each a record [k, cls, min, s, alts, g]:                                *)
(*   k = "rep": cls repeated min times or more, greedy                     *)
(*   k = "one": cls once                                                   *)
(*   k = "opt": cls?        greedy                                         *)
(*   k = "lit": the literal s                                              *)
(*   k = "alt": ordered alternatives, each a sequence of rep/opt/lit items *)
(*            (cls = "?" marks an optional group)                          *)
(*   k = "end": $                                                          *)
(* g > 0 makes the item capture group g.  Alternatives and repetition      *)
(* counts are tried in re's priority order, so the first match found is    *)
(* the match re reports.                                                   *)
(***************************************************************************)
IdentStart == Letters \cup {"_"}
TypeChars == WordChars \cup Whitespace \cup {"*"}
ClassSet(cls) ==
    CASE cls = "\\s" -> Whitespace
      [] cls = "\\w" -> WordChars
      [] cls = "\\d" -> Digits
      [] cls = "[a-zA-Z_]" -> IdentStart
      [] cls = "[\\w\\*\\s]" -> TypeChars
      [] cls = "[({]" -> {"(", "{"}
      [] OTHER -> {cls}

\* [^)] is the one negated class the patterns use
InClass(c, cls) == IF cls = "[^)]" THEN c # ")" ELSE c \in ClassSet(cls)

RECURSIVE ClassRun(_, _, _)
ClassRun(s, i, cls) ==
    IF i < Len(s) /\ InClass(s[i + 1], cls) THEN 1 + ClassRun(s, i + 1, cls) ELSE 0

Rep(cls, min, g) == [k |-> "rep", cls |-> cls, min |-> min, s |-> <<>>, alts |-> <<>>, g |-> g]
Opt(cls, g) == [k |-> "opt", cls |-> cls, min |-> 0, s |-> <<>>, alts |-> <<>>, g |-> g]
Lit(s, g) == [k |-> "lit", cls |-> "", min |-> 0, s |-> s, alts |-> <<>>, g |-> g]
Alt(alts, g) == [k |-> "alt", cls |-> "", min |-> 0, s |-> <<>>, alts |-> alts, g |-> g]
\* (a|b)?: the alternatives, then the empty match, which leaves the group unset
OptAlt(alts, g) == [k |-> "alt", cls |-> "?", min |-> 0, s |-> <<>>, alts |-> alts \o << <<>> >>, g |-> g]
EndAnchor == [k |-> "end", cls |-> "", min |-> 0, s |-> <<>>, alts |-> <<>>, g |-> 0]

\* the offsets at which a rep/opt/lit/end item can end when it starts at offset i, best first
SimpleEnds(it, s, i) ==
    CASE it.k = "rep" ->
            LET n == ClassRun(s, i, it.cls)
            IN  IF n < it.min THEN <<>> ELSE [j \in 1..(n - it.min + 1) |-> i + n - j + 1]
      [] it.k = "one" ->
            IF i < Len(s) /\ InClass(s[i + 1], it.cls) THEN <<i + 1>> ELSE <<>>
      [] it.k = "opt" ->
            IF i < Len(s) /\ InClass(s[i + 1], it.cls) THEN <<i + 1, i>> ELSE <<i>>
      [] it.k = "lit" ->
            IF i + Len(it.s) <= Len(s) /\ SubSeq(s, i + 1, i + Len(it.s)) = it.s
            THEN <<i + Len(it.s)>> ELSE <<>>
      [] it.k = "end" ->
            IF i = Len(s) \/ (i = Len(s) - 1 /\ s[Len(s)] = "\n") THEN <<i>> ELSE <<>>

RECURSIVE Flatten(_)
Flatten(ss) == IF ss = <<>> THEN <<>> ELSE ss[1] \o Flatten(Tail(ss))
FlatMap(xs, F(_)) == Flatten([j \in 1..Len(xs) |-> F(xs[j])])

\* the end offsets of a sequence of simple items started at offset i, in priority order
RECURSIVE SeqEnds(_, _, _)
SeqEnds(items, s, i) ==
    IF items = <<>> THEN <<i>>
    ELSE LET rest(e) == SeqEnds(Tail(items), s, e)
         IN  FlatMap(SimpleEnds(items[1], s, i), rest)

ItemEnds(it, s, i) ==
    IF it.k = "alt"
    THEN LET one(a) == SeqEnds(a, s, i) IN FlatMap(it.alts, one)
    ELSE SimpleEnds(it, s, i)

NoMatch == [ok |-> FALSE, start |-> 0, end |-> 0, caps |-> <<>>]
NoGroup == <<-1, -1>>

\* the first match of items[k..] started at offset i; caps[g] is group g's <<start, end>>
RECURSIVE MatchItems(_, _, _, _, _)
RECURSIVE TryEnds(_, _, _, _, _, _, _)
MatchItems(items, k, s, i, caps) ==
    IF k > Len(items) THEN [ok |-> TRUE, start |-> 0, end |-> i, caps |-> caps]
    ELSE TryEnds(items, k, s, i, caps, ItemEnds(items[k], s, i), 1)
TryEnds(items, k, s, i, caps, ends, j) ==
    IF j > Len(ends) THEN NoMatch
    ELSE LET g == items[k].g
             unset == items[k].cls = "?" /\ ends[j] = i
             c2 == IF g > 0 /\ ~unset THEN [caps EXCEPT ![g] = <<i, ends[j]>>] ELSE caps
             r == MatchItems(items, k + 1, s, ends[j], c2)
         IN  IF r.ok THEN r ELSE TryEnds(items, k, s, i, caps, ends, j + 1)

\* pattern.match(s): anchored at the start of s (also pattern.search of a ^ pattern)
ReMatch(items, ngroups, s) == MatchItems(items, 1, s, 0, [g \in 1..ngroups |-> NoGroup])

\* pattern.search(s): the leftmost match
RECURSIVE SearchFrom(_, _, _, _)
SearchFrom(items, ngroups, s, i) ==
    IF i > Len(s) THEN NoMatch
    ELSE LET r == MatchItems(items, 1, s, i, [g \in 1..ngroups |-> NoGroup])
         IN  IF r.ok THEN [r EXCEPT !.start = i] ELSE SearchFrom(items, ngroups, s, i + 1)
ReSearch(items, ngroups, s) == SearchFrom(items, ngroups, s, 0)

\* Python None (and SQL NULL): a value that is no text, as no text holds a
\* character of more than one letter
None == <<"None">>

\* match.group(g): the text of group g, or None for a group that did not take part
Group(m, s, g) == IF m.caps[g] = NoGroup THEN None ELSE SubSeq(s, m.caps[g][1] + 1, m.caps[g][2])

(***************************************************************************)
(* Function extractor (core/code_extract.py)                               *)
(***************************************************************************)
One(cls, g) == [k |-> "one", cls |-> cls, min |-> 1, s |-> <<>>, alts |-> <<>>, g |-> g]

\* r'^(\s*)(def|class)\s+(\w+)'
func_pattern ==
    << Rep("\\s", 0, 1),
       Alt(<< <<Lit(<<"d","e","f">>, 0)>>, <<Lit(<<"c","l","a","s","s">>, 0)>> >>, 2),
       Rep("\\s", 1, 0),
       Rep("\\w", 1, 3) >>

\* the four JavaScript/TypeScript patterns, in the order they are tried
js_patterns ==
    << \* r'^\s*(function\s+\w+)'
       << Rep("\\s", 0, 0),
          Alt(<< <<Lit(<<"f","u","n","c","t","i","o","n">>, 0), Rep("\\s", 1, 0), Rep("\\w", 1, 0)>> >>, 1) >>,
       \* r'^\s*(const|let|var)\s+(\w+)\s*=\s*function'
       << Rep("\\s", 0, 0),
          Alt(<< <<Lit(<<"c","o","n","s","t">>, 0)>>, <<Lit(<<"l","e","t">>, 0)>>, <<Lit(<<"v","a","r">>, 0)>> >>, 1),
          Rep("\\s", 1, 0), Rep("\\w", 1, 2), Rep("\\s", 0, 0), Lit(<<"=">>, 0),
          Rep("\\s", 0, 0), Lit(<<"f","u","n","c","t","i","o","n">>, 0) >>,
       \* r'^\s*(const|let|var)\s+(\w+)\s*=\s*\('
       << Rep("\\s", 0, 0),
          Alt(<< <<Lit(<<"c","o","n","s","t">>, 0)>>, <<Lit(<<"l","e","t">>, 0)>>, <<Lit(<<"v","a","r">>, 0)>> >>, 1),
          Rep("\\s", 1, 0), Rep("\\w", 1, 2), Rep("\\s", 0, 0), Lit(<<"=">>, 0),
          Rep("\\s", 0, 0), Lit(<<"(">>, 0) >>,
       \* r'^\s*(async\s+)?(\w+)\s*\([^)]*\)\s*{'
       << Rep("\\s", 0, 0),
          OptAlt(<< <<Lit(<<"a","s","y","n","c">>, 0), Rep("\\s", 1, 0)>> >>, 1),
          Rep("\\w", 1, 2), Rep("\\s", 0, 0), Lit(<<"(">>, 0), Rep("[^)]", 0, 0),
          Lit(<<")">>, 0), Rep("\\s", 0, 0), Lit(<<"{">>, 0) >> >>
\* len(match.groups()) of each pattern
js_groups == <<1, 2, 2, 2>>

\* r'^\s*(public|private|protected)?\s*(static)?\s*(class|\w+)\s+(\w+)\s*[\(\{]'
java_pattern ==
    << Rep("\\s", 0, 0),
       OptAlt(<< <<Lit(<<"p","u","b","l","i","c">>, 0)>>, <<Lit(<<"p","r","i","v","a","t","e">>, 0)>>, <<Lit(<<"p","r","o","t","e","c","t","e","d">>, 0)>> >>, 1),
       Rep("\\s", 0, 0),
       OptAlt(<< <<Lit(<<"s","t","a","t","i","c">>, 0)>> >>, 2),
       Rep("\\s", 0, 0),
       Alt(<< <<Lit(<<"c","l","a","s","s">>, 0)>>, <<Rep("\\w", 1, 0)>> >>, 3),
       Rep("\\s", 1, 0), Rep("\\w", 1, 4), Rep("\\s", 0, 0), One("[({]", 0) >>

\* r'^\s*[\w\*\s]+\s+(\w+)\s*\([^)]*\)\s*{'
c_pattern ==
    << Rep("\\s", 0, 0), Rep("[\\w\\*\\s]", 1, 0), Rep("\\s", 1, 0), Rep("\\w", 1, 1),
       Rep("\\s", 0, 0), Lit(<<"(">>, 0), Rep("[^)]", 0, 0), Lit(<<")">>, 0),
       Rep("\\s", 0, 0), Lit(<<"{">>, 0) >>

\* r'^\s*func\s+(\w+|\(\w+\s+\*?\w+\)\s+\w+)\s*\('
go_pattern ==
    << Rep("\\s", 0, 0), Lit(<<"f","u","n","c">>, 0), Rep("\\s", 1, 0),
       Alt(<< <<Rep("\\w", 1, 0)>>,
              <<Lit(<<"(">>, 0), Rep("\\w", 1, 0), Rep("\\s", 1, 0), Opt("*", 0),
                Rep("\\w", 1, 0), Lit(<<")">>, 0), Rep("\\s", 1, 0), Rep("\\w", 1, 0)>> >>, 1),
       Rep("\\s", 0, 0), Lit(<<"(">>, 0) >>

FunctionSpan(name, lines, start, end) ==
    [name |-> name, code |-> JoinNl(SubSeq(lines, start + 1, end)),
     start_line |-> start + 1, end_line |-> end]

\* the inner while of extract_python_functions: the index of the first non-blank
\* line at or after i whose indentation is <= indent, or len(lines)
RECURSIVE PyBodyEnd(_, _, _)
PyBodyEnd(lines, i, indent) ==
    IF i >= Len(lines) THEN i
    ELSE LET line == lines[i + 1]
         IN  IF Strip(line) = <<>> THEN PyBodyEnd(lines, i + 1, indent)
             ELSE IF Len(line) - Len(LStrip(line)) <= indent THEN i
             ELSE PyBodyEnd(lines, i + 1, indent)

RECURSIVE PyScan(_, _)
PyScan(lines, i) ==
    IF i >= Len(lines) THEN <<>>
    ELSE LET m == ReMatch(func_pattern, 3, lines[i + 1])
         IN  IF m.ok
             THEN LET indent == Len(Group(m, lines[i + 1], 1))
                      name == Group(m, lines[i + 1], 2) \o <<" ">> \o Group(m, lines[i + 1], 3)
                      end == PyBodyEnd(lines, i + 1, indent)
                  IN  <<FunctionSpan(name, lines, i, end)>> \o PyScan(lines, end)
             ELSE PyScan(lines, i + 1)

extract_python_functions(code) == PyScan(SplitLines(code), 0)

\* the brace-counting while shared by the JavaScript, Java, C and Go extractors
RECURSIVE BraceEnd(_, _, _)
BraceEnd(lines, i, brace_count) ==
    IF i < Len(lines) /\ brace_count > 0
    THEN BraceEnd(lines, i + 1, brace_count + Count(lines[i + 1], "{") - Count(lines[i + 1], "}"))
    ELSE i

BraceCount(line) == Count(line, "{") - Count(line, "}")

\* the first pattern of js_patterns that matches the line: <<index, match>>, index 0 for none
RECURSIVE JsFirst(_, _)
JsFirst(line, p) ==
    IF p > Len(js_patterns) THEN <<0, NoMatch>>
    ELSE LET m == ReMatch(js_patterns[p], js_groups[p], line)
         IN  IF m.ok THEN <<p, m>> ELSE JsFirst(line, p + 1)

RECURSIVE JsScan(_, _)
JsScan(lines, i) ==
    IF i >= Len(lines) THEN <<>>
    ELSE LET line == lines[i + 1]
             pm == JsFirst(line, 1)
         IN  IF pm[1] > 0
             THEN LET name == IF js_groups[pm[1]] = 1 THEN Group(pm[2], line, 1)
                              ELSE Group(pm[2], line, 2)
                      end == BraceEnd(lines, i + 1, BraceCount(line))
                  IN  <<FunctionSpan(name, lines, i, end)>> \o JsScan(lines, end)
             ELSE JsScan(lines, i + 1)

extract_js_functions(code) == JsScan(SplitLines(code), 0)

\* the loop of extract_java_functions, extract_c_functions and extract_go_functions:
\* one pattern, the name in group g
RECURSIVE BraceScan(_, _, _, _, _)
BraceScan(lines, i, pattern, ngroups, g) ==
    IF i >= Len(lines) THEN <<>>
    ELSE LET line == lines[i + 1]
             m == ReMatch(pattern, ngroups, line)
         IN  IF m.ok
             THEN LET end == BraceEnd(lines, i + 1, BraceCount(line))
                  IN  <<FunctionSpan(Group(m, line, g), lines, i, end)>>
                          \o BraceScan(lines, end, pattern, ngroups, g)
             ELSE BraceScan(lines, i + 1, pattern, ngroups, g)

extract_java_functions(code) == BraceScan(SplitLines(code), 0, java_pattern, 4, 4)
extract_c_functions(code) == BraceScan(SplitLines(code), 0, c_pattern, 1, 1)
extract_go_functions(code) == BraceScan(SplitLines(code), 0, go_pattern, 1, 1)

\* the span an unsupported language gets: the whole text as one block
code_block(code) ==
    [name |-> <<"c","o","d","e","_","b","l","o","c","k">>, code |-> code, start_line |-> 1, end_line |-> Len(SplitLines(code))]

extract_functions_from_code(code, language) ==
    CASE language = "python" -> extract_python_functions(code)
      [] language \in {"javascript", "typescript"} -> extract_js_functions(code)
      [] language = "java" -> extract_java_functions(code)
      [] language \in {"c", "cpp"} -> extract_c_functions(code)
      [] language = "go" -> extract_go_functions(code)
      [] OTHER -> <<code_block(code)>>

\* r'\+(\d+),?(\d+)?'
hunk_pattern ==
    << Lit(<<"+">>, 0), Rep("\\d", 1, 1), Opt(",", 0), OptAlt(<< <<Rep("\\d", 1, 0)>> >>, 2) >>

\* the hunk parser with range(start, start + count + 1)
HunkLinesInclusive(line) ==
    IF Len(line) >= 2 /\ SubSeq(line, 1, 2) = <<"@", "@">>
    THEN LET match == ReSearch(hunk_pattern, 2, line)
         IN  IF match.ok
             THEN LET start == ParseInt(Group(match, line, 1))
                      g2 == Group(match, line, 2)
                      count == IF g2 # None /\ g2 # <<>> THEN ParseInt(g2) ELSE 1
                  IN  start..(start + count)
             ELSE {}
    ELSE {}

\* the lines one diff line adds to changed_lines
hunk_lines(line) ==
    IF Len(line) >= 2 /\ SubSeq(line, 1, 2) = <<"@", "@">>
    THEN LET match == ReSearch(hunk_pattern, 2, line)
         IN  IF match.ok
             THEN LET start == ParseInt(Group(match, line, 1))
                      g2 == Group(match, line, 2)
                      count == IF g2 # None /\ g2 # <<>> THEN ParseInt(g2) ELSE 1
                  IN  start..(start + count - 1)
             ELSE {}
    ELSE {}

\* the first loop of extract_changed_functions: the post-change lines the diff touches
changed_lines_of(diff_text) ==
    LET ls == SplitLines(diff_text)
    IN  UNION {hunk_lines(ls[j]) : j \in 1..Len(ls)}

\* sorted(set): the members of a set of integers in increasing order
RECURSIVE Sorted(_)
Sorted(S) ==
    IF S = {} THEN <<>>
    ELSE LET m == CHOOSE a \in S : \A b \in S : a <= b
         IN  <<m>> \o Sorted(S \ {m})

SelectSeqIdx(xs, keep(_)) == SelectSeq(xs, keep)

\* extract_changed_functions without its "if func_lines & changed_lines": every function
\* of the text is returned
ChangedFunctionsUnfiltered(diff_text, code_after, language) ==
    LET changed_lines == changed_lines_of(diff_text)
        all_functions == extract_functions_from_code(code_after, language)
    IN  [j \in 1..Len(all_functions) |->
            [name |-> all_functions[j].name, code |-> all_functions[j].code,
             start_line |-> all_functions[j].start_line, end_line |-> all_functions[j].end_line,
             changed_lines |->
                 Sorted((all_functions[j].start_line..all_functions[j].end_line)
                            \cap changed_lines)]]

extract_changed_functions(diff_text, code_after, language) ==
    LET changed_lines == changed_lines_of(diff_text)
        all_functions == extract_functions_from_code(code_after, language)
        func_lines(func) == func.start_line..func.end_line
        overlaps(func) == func_lines(func) \cap changed_lines # {}
        kept == SelectSeqIdx(all_functions, overlaps)
    IN  [j \in 1..Len(kept) |->
            [name |-> kept[j].name, code |-> kept[j].code,
             start_line |-> kept[j].start_line, end_line |-> kept[j].end_line,
             changed_lines |-> Sorted(func_lines(kept[j]) \cap changed_lines)]]

(***************************************************************************)
(* The git side (core/git_ops.py): the repositories on disk and the commit *)
(* git reports as HEAD when the post-commit hook runs.                     *)
(***************************************************************************)
RepoPaths == {"/home/dev/app", "/home/dev/lib"}

\* get_repo_info: name is the last component of the resolved path
get_repo_info(path) ==
    [name |-> IF path = "/home/dev/app" THEN <<"a","p","p">> ELSE <<"l","i","b">>, path |-> path]

\* Path(file_path).suffix.lower(): from the last dot of a name that does not start with it
Suffix(file_path) ==
    IF \E k \in 2..Len(file_path) : file_path[k] = "."
    THEN LET k == CHOOSE k \in 2..Len(file_path) :
                      file_path[k] = "." /\ \A j \in (k + 1)..Len(file_path) : file_path[j] # "."
         IN  Lower(SubSeq(file_path, k, Len(file_path)))
    ELSE <<>>

\* ext_map.get(ext, 'text')
detect_language(file_path) ==
    LET ext == Suffix(file_path)
    IN  CASE ext = <<".","p","y">> -> "python"
          [] ext \in {<<".","j","s">>, <<".","j","s","x">>} -> "javascript"
          [] ext \in {<<".","t","s">>, <<".","t","s","x">>} -> "typescript"
          [] ext = <<".","j","a","v","a">> -> "java"
          [] ext \in {<<".","c","p","p">>, <<".","h","p","p">>} -> "cpp"
          [] ext \in {<<".","c">>, <<".","h">>} -> "c"
          [] ext = <<".","g","o">> -> "go"
          [] ext = <<".","m","d">> -> "markdown"
          [] OTHER -> "text"

\* get_commit_info + get_file_diff for the commits the repositories hold
CommitA ==
    [hash |-> "a1f3", message |-> <<"a","d","d"," ","J","W","T"," ","a","u","t","h">>, timestamp |-> 1,
     changed_files |->
        << [path |-> <<"a","u","t","h",".","p","y">>, change_type |-> "added",
            diff |-> <<"@","@"," ","-","0",",","0"," ","+","1",",","2"," ","@","@","\n","+","d","e","f"," ","l","o","g","i","n","(","u","s","e","r",")",":","\n","+"," "," "," "," ","r","e","t","u","r","n"," ","a","u","t","h","(","u","s","e","r",")">>,
            code_after |-> <<"d","e","f"," ","l","o","g","i","n","(","u","s","e","r",")",":","\n"," "," "," "," ","r","e","t","u","r","n"," ","a","u","t","h","(","u","s","e","r",")">>] >>]
CommitB ==
    [hash |-> "b2c4", message |-> <<"f","i","x"," ","t","y","p","o">>, timestamp |-> 2,
     changed_files |->
        << [path |-> <<"R","E","A","D","M","E",".","m","d">>, change_type |-> "modified",
            diff |-> <<"@","@"," ","-","1"," ","+","1"," ","@","@","\n","-","D","e","v","l","o","g","\n","+","D","e","v","L","o","g">>,
            code_after |-> <<"D","e","v","L","o","g">>] >>]
CommitC ==
    [hash |-> "c3d5", message |-> <<"u","s","e"," ","t","o","k","e","n">>, timestamp |-> 3,
     changed_files |->
        << [path |-> <<"v","i","e","w","s",".","p","y">>, change_type |-> "modified",
            diff |-> <<"@","@"," ","-","1"," ","+","1"," ","@","@","\n","-","x"," ","="," ","1","\n","+","x"," ","="," ","a","u","t","h","(","u",")">>,
            code_after |-> <<"x"," ","="," ","a","u","t","h","(","u",")">>] >>]

\* the commits HEAD can be in each repository
HeadCommits(path) == IF path = "/home/dev/app" THEN {CommitA, CommitB} ELSE {CommitC}

(***************************************************************************)
(* The embedding model (sentence_transformers, external): a deterministic  *)
(* map from a text to a vector.  Vectors are integer pairs of norm 5, so   *)
(* that cosine similarity is an exact multiple of 1/25.                    *)
(***************************************************************************)
Palette == << <<3, 4>>, <<4, 3>>, <<-3, 4>> >>

\* model.encode(text)
generate_embedding(text) == Palette[(Len(text) % Len(Palette)) + 1]

(***************************************************************************)
(* The store (core/db.py).  A table is a sequence of rows, a row's id its  *)
(* index (INTEGER PRIMARY KEY AUTOINCREMENT, no row is ever deleted).      *)
(***************************************************************************)
VARIABLES
    tracked_repos,      \* rows [repo_name, repo_path, last_commit_at, commit_count, active]
    git_commits,        \* rows [repo_id, commit_hash, message, timestamp]
    code_changes,       \* rows [commit_id, file_path, change_type, language, diff_text, code_after]
    embeddings_table,   \* whether the table commit_embeddings exists
    commit_embeddings,  \* rows of commit_embeddings: commit_id -> embedding
    last,               \* the operation that ran last, with what it returned
    model_available,    \* whether SentenceTransformer(...) and model.encode succeed
    _model,             \* the module global _model of a long-lived process: the instance, or NotLoaded
    loads,              \* how many times SentenceTransformer(...) was constructed in that process
    pc,                 \* where each caller of get_model stands
    got                 \* the instance get_model last returned to each caller

store == <<tracked_repos, git_commits, code_changes, embeddings_table, commit_embeddings>>
env == <<model_available, _model, loads, pc, got>>
vars == <<tracked_repos, git_commits, code_changes, embeddings_table, commit_embeddings, last,
          model_available, _model, loads, pc, got>>

\* the threads of one process that call get_model (asyncio.to_thread workers)
MaxCallers == 3
Callers == 1..MaxCallers

\* _model = None
NotLoaded == 0

\* a process in which no thread has called get_model yet
LoaderIdle ==
    /\ _model = NotLoaded
    /\ loads = 0
    /\ pc = [t \in Callers |-> "idle"]
    /\ got = [t \in Callers |-> NotLoaded]

\* bounds of the model
MaxChanges == 2

\* what an operation leaves in `last`; the fields an operation does not set stay as here
NoOp ==
    [op |-> "init", query |-> <<>>, requested |-> "", search_type |-> "", repo_filter |-> None,
     language |-> "", limit |-> 0, results |-> <<>>, lists |-> <<>>, ran |-> {},
     error |-> FALSE, duplicate |-> FALSE, processed |-> 0, prev_processed |-> -1,
     path |-> "", was_active |-> {},
     commit_id |-> 0, embedding |-> <<>>, replaced |-> <<>>, a |-> <<>>, b |-> <<>>, similarity |-> 0]

\* init_db on a new database file: the four tables, empty; commit_embeddings is not one of them.
\* The embedding model can or cannot be loaded on this machine.  Each operation of the
\* store runs as a command of its own (devlog search, devlog embed, the post-commit hook),
\* a process that starts with _model = None and ends with the command.
Init ==
    /\ tracked_repos = <<>>
    /\ git_commits = <<>>
    /\ code_changes = <<>>
    /\ embeddings_table = FALSE
    /\ commit_embeddings = <<>>
    /\ last = NoOp
    /\ model_available \in BOOLEAN
    /\ LoaderIdle

RepoIds(path) == {r \in DOMAIN tracked_repos : tracked_repos[r].repo_path = path}

\* install_hook: INSERT, or on the UNIQUE(repo_path) IntegrityError UPDATE active = 1
install_hook(path) ==
    /\ tracked_repos' =
          IF RepoIds(path) = {}
          THEN Append(tracked_repos,
                      [repo_name |-> get_repo_info(path).name, repo_path |-> path,
                       last_commit_at |-> 0, commit_count |-> 0, active |-> TRUE])
          ELSE [r \in DOMAIN tracked_repos |->
                   IF tracked_repos[r].repo_path = path
                   THEN [tracked_repos[r] EXCEPT !.active = TRUE] ELSE tracked_repos[r]]
    /\ last' = [NoOp EXCEPT !.op = "install_hook", !.path = path]
    /\ UNCHANGED <<git_commits, code_changes, embeddings_table, commit_embeddings>>

\* uninstall_hook: UPDATE tracked_repos SET active = 0 WHERE repo_path = ?; was_active are
\* the repositories that were active before the call
uninstall_hook(path) ==
    /\ tracked_repos' =
          [r \in DOMAIN tracked_repos |->
              IF tracked_repos[r].repo_path = path
              THEN [tracked_repos[r] EXCEPT !.active = FALSE] ELSE tracked_repos[r]]
    /\ last' = [NoOp EXCEPT !.op = "uninstall_hook", !.path = path,
                            !.was_active = {r \in DOMAIN tracked_repos : tracked_repos[r].active}]
    /\ UNCHANGED <<git_commits, code_changes, embeddings_table, commit_embeddings>>

\* whether git_commits holds (repo_id, commit_hash): the UNIQUE constraint INSERT OR IGNORE meets
IsStored(repo_id, hash) ==
    \E c \in DOMAIN git_commits :
        git_commits[c].repo_id = repo_id /\ git_commits[c].commit_hash = hash

\* c.lastrowid after INSERT OR IGNORE on a connection just opened: the new row's id,
\* or 0 (sqlite3_last_insert_rowid of a connection that inserted nothing) when ignored
lastrowid(repo_id, hash) == IF IsStored(repo_id, hash) THEN 0 ELSE Len(git_commits) + 1

\* the code_changes rows capture_commit inserts for one commit
NewCodeChanges(commit_id, commit_info) ==
    [j \in 1..Len(commit_info.changed_files) |->
        LET f == commit_info.changed_files[j]
        IN  [commit_id |-> commit_id, file_path |-> f.path, change_type |-> f.change_type,
             language |-> detect_language(f.path), diff_text |-> f.diff,
             code_after |-> f.code_after]]

\* capture_commit(repo_path) when HEAD is commit_info, on a store of fewer than max
\* code_changes rows
CaptureWithin(path, commit_info, max) ==
    LET active == {r \in RepoIds(path) : tracked_repos[r].active}
    IN  IF active = {}
        THEN /\ last' = [NoOp EXCEPT !.op = "capture_commit"]
             /\ UNCHANGED store
        ELSE LET repo_id == CHOOSE r \in active : TRUE
                 commit_id == lastrowid(repo_id, commit_info.hash)
             IN  /\ Len(code_changes) < max
                 /\ git_commits' =
                       IF IsStored(repo_id, commit_info.hash) THEN git_commits
                       ELSE Append(git_commits,
                                   [repo_id |-> repo_id, commit_hash |-> commit_info.hash,
                                    message |-> commit_info.message,
                                    timestamp |-> commit_info.timestamp])
                 /\ code_changes' = code_changes \o NewCodeChanges(commit_id, commit_info)
                 /\ tracked_repos' =
                       [tracked_repos EXCEPT ![repo_id] =
                           [@ EXCEPT !.last_commit_at = commit_info.timestamp,
                                     !.commit_count = @ + 1]]
                 /\ last' = [NoOp EXCEPT !.op = "capture_commit",
                                         !.duplicate = IsStored(repo_id, commit_info.hash)]
                 /\ UNCHANGED <<embeddings_table, commit_embeddings>>

capture_commit(path, commit_info) == CaptureWithin(path, commit_info, MaxChanges)

(***************************************************************************)
(* Embedding index (core/embeddings.py)                                    *)
(***************************************************************************)
Put(f, key, val) == [k \in DOMAIN f \cup {key} |-> IF k = key THEN val ELSE f[k]]

\* store_commit_embedding with INSERT OR IGNORE: the row a commit has stays
StoreKeepingFirst(commit_id, embedding) ==
    /\ embeddings_table' = TRUE
    /\ commit_embeddings' = IF commit_id \in DOMAIN commit_embeddings THEN commit_embeddings
                            ELSE Put(commit_embeddings, commit_id, embedding)

\* store_commit_embedding: CREATE TABLE IF NOT EXISTS, then INSERT OR REPLACE
store_commit_embedding(commit_id, embedding) ==
    /\ embeddings_table' = TRUE
    /\ commit_embeddings' = Put(commit_embeddings, commit_id, embedding)

\* the Embedding Index's store(commitId, vector), called on its own; replaced is the
\* vector the commit had before the call
StoreEmbedding(commit_id, embedding) ==
    /\ store_commit_embedding(commit_id, embedding)
    /\ last' = [NoOp EXCEPT !.op = "store_commit_embedding",
                            !.commit_id = commit_id, !.embedding = embedding,
                            !.replaced = IF commit_id \in DOMAIN commit_embeddings
                                         THEN commit_embeddings[commit_id] ELSE <<>>]
    /\ UNCHANGED <<tracked_repos, git_commits, code_changes>>

\* GROUP_CONCAT(cc.file_path, ', ') over the commit's code_changes, '' for none
RECURSIVE JoinComma(_)
JoinComma(paths) ==
    IF paths = <<>> THEN <<>>
    ELSE IF Len(paths) = 1 THEN paths[1]
    ELSE paths[1] \o <<",", " ">> \o JoinComma(Tail(paths))

FilesOf(commit_id) ==
    SelectSeqIdx(code_changes, LAMBDA cc : cc.commit_id = commit_id)

FilePathsOf(commit_id) ==
    LET fs == FilesOf(commit_id) IN [j \in 1..Len(fs) |-> fs[j].file_path]

\* the text embed_all_commits embeds for a commit: f"{message} {files or ''}"
EmbeddingText(commit_id) ==
    git_commits[commit_id].message \o <<" ">> \o JoinComma(FilePathsOf(commit_id))

\* the SELECT without its "WHERE ce.commit_id IS NULL"
EveryCommitPending == DOMAIN git_commits

\* the commits embed_all_commits selects: those with no commit_embeddings row
PendingCommits == {c \in DOMAIN git_commits : c \notin DOMAIN commit_embeddings}

\* embed_all_commits; the SELECT raises OperationalError while commit_embeddings does not
\* exist, and generate_embedding raises on the first pending commit when the model
\* cannot be loaded
embed_all_commits ==
    LET prev == IF last.op = "embed_all_commits" THEN last.processed ELSE -1
    IN  IF ~embeddings_table \/ (PendingCommits # {} /\ ~model_available)
        THEN /\ last' = [NoOp EXCEPT !.op = "embed_all_commits", !.error = TRUE,
                                     !.prev_processed = prev]
             /\ UNCHANGED store
        ELSE /\ commit_embeddings' =
                    [c \in DOMAIN commit_embeddings \cup PendingCommits |->
                        IF c \in PendingCommits THEN generate_embedding(EmbeddingText(c))
                        ELSE commit_embeddings[c]]
             /\ last' = [NoOp EXCEPT !.op = "embed_all_commits",
                                     !.processed = Cardinality(PendingCommits),
                                     !.prev_processed = prev]
             /\ UNCHANGED <<tracked_repos, git_commits, code_changes, embeddings_table>>

\* integer square root, for norms
ISqrt(n) == CHOOSE k \in 0..n : k * k <= n /\ (k + 1) * (k + 1) > n
Dot(a, b) == a[1] * b[1] + a[2] * b[2]
Norm(a) == ISqrt(Dot(a, a))

\* float('nan'): what numpy's float64 division gives for 0.0 / 0.0 (a RuntimeWarning, no
\* exception); no number of the model is this small
NaN == -1000000

\* x < y on floats: False whenever either side is NaN
Lt(x, y) == x # NaN /\ y # NaN /\ x < y

\* cosine_similarity, in hundredths: np.dot(a, b) / (norm(a) * norm(b)); with a zero-norm
\* vector the dot product is 0.0 too and the quotient is NaN
cosine_similarity(a, b) ==
    IF Norm(a) * Norm(b) = 0 THEN NaN
    ELSE (100 * Dot(a, b)) \div (Norm(a) * Norm(b))

(***************************************************************************)
(* SQL pieces shared by the strategies                                     *)
(***************************************************************************)
\* s LIKE pattern: % is any run, _ any one character, letters compare without case
RECURSIVE LikeAt(_, _, _, _)
LikeAt(pattern, p, s, i) ==
    IF p > Len(pattern) THEN i > Len(s)
    ELSE IF pattern[p] = "%"
         THEN \E k \in i..(Len(s) + 1) : LikeAt(pattern, p + 1, s, k)
    ELSE /\ i <= Len(s)
         /\ (pattern[p] = "_" \/ pattern[p] = s[i])
         /\ LikeAt(pattern, p + 1, s, i + 1)
Like(pattern, s) == LikeAt(Lower(pattern), 1, Lower(s), 1)

\* column LIKE f"%{term}%"; NULL LIKE ... is NULL, which WHERE takes as false.
\* A term with no wildcard of its own matches where it occurs in the column.
LikeTerm(column, term) ==
    /\ column # None
    /\ IF \E k \in DOMAIN term : term[k] \in {"%", "_"}
       THEN Like(<<"%">> \o term \o <<"%">>, column)
       ELSE Contains(Lower(term), Lower(column))

\* Python truthiness of an Optional[str] argument
Given(arg) == arg # None /\ arg # <<>>

RepoOf(c) == tracked_repos[git_commits[c].repo_id]

\* stable sort, greatest key first: sorted(xs, key=key, reverse=True), ORDER BY key DESC.
\* An element goes after those of a greater key and after the earlier ones of its own key.
SortDesc(xs, key(_)) ==
    LET ks == [j \in 1..Len(xs) |-> key(xs[j])]
        before(j) == {i \in 1..Len(xs) : ks[i] > ks[j] \/ (ks[i] = ks[j] /\ i < j)}
    IN  [p \in 1..Len(xs) |-> xs[CHOOSE j \in 1..Len(xs) : Cardinality(before(j)) = p - 1]]

Reverse(xs) == [j \in 1..Len(xs) |-> xs[Len(xs) + 1 - j]]

\* list.sort on fewer than 64 elements (CPython listsort): count_run finds the run the list
\* starts with, strictly descending (then reversed) or non-descending; binarysort inserts
\* the rest one by one at the place a binary search with "pivot < a[p]" gives.  ks are the
\* keys, order the positions of the elements being sorted.
RECURSIVE RunEnd(_, _, _, _)
RunEnd(ks, order, k, descending) ==
    IF k < Len(order) /\ Lt(ks[order[k + 1]], ks[order[k]]) = descending
    THEN RunEnd(ks, order, k + 1, descending)
    ELSE k

RECURSIVE BinarySearch(_, _, _, _, _)
BinarySearch(ks, sorted, pivot, l, r) ==
    IF l >= r THEN l
    ELSE LET p == l + ((r - l) \div 2)
         IN  IF Lt(ks[pivot], ks[sorted[p + 1]])
             THEN BinarySearch(ks, sorted, pivot, l, p)
             ELSE BinarySearch(ks, sorted, pivot, p + 1, r)

RECURSIVE binarysort(_, _, _)
binarysort(ks, sorted, rest) ==
    IF rest = <<>> THEN sorted
    ELSE LET l == BinarySearch(ks, sorted, Head(rest), 0, Len(sorted))
         IN  binarysort(ks, SubSeq(sorted, 1, l) \o <<Head(rest)>>
                                \o SubSeq(sorted, l + 1, Len(sorted)),
                        Tail(rest))

listsort(ks, order) ==
    IF Len(order) < 2 THEN order
    ELSE LET descending == Lt(ks[order[2]], ks[order[1]])
             n == RunEnd(ks, order, 2, descending)
             run == IF descending THEN Reverse(SubSeq(order, 1, n)) ELSE SubSeq(order, 1, n)
         IN  binarysort(ks, run, SubSeq(order, n + 1, Len(order)))

\* the positions of a list with keys ks after list.sort(key=..., reverse=True): the list is
\* reversed, sorted ascending and reversed again
SortedReverse(ks) == Reverse(listsort(ks, Reverse([j \in 1..Len(ks) |-> j])))

\* xs[:n]
Take(xs, n) == SubSeq(xs, 1, Min2(n, Len(xs)))

\* SELECT DISTINCT: the first of equal rows
RECURSIVE Distinct(_)
Distinct(xs) ==
    IF xs = <<>> THEN <<>>
    ELSE LET front == Distinct(SubSeq(xs, 1, Len(xs) - 1))
         IN  IF \E k \in DOMAIN front : front[k] = xs[Len(xs)] THEN front
             ELSE Append(front, xs[Len(xs)])

\* the ids of git_commits JOIN tracked_repos WHERE r.active = 1, ORDER BY c.timestamp DESC
\* (rows of one timestamp in id order)
\* the same join without its "r.active = 1"
EveryCommitByTime ==
    LET ids == [c \in 1..Len(git_commits) |-> c]
    IN  SortDesc(ids, LAMBDA c : git_commits[c].timestamp)

ActiveCommitsByTime ==
    LET ids == SelectSeqIdx([c \in 1..Len(git_commits) |-> c], LAMBDA c : RepoOf(c).active)
    IN  SortDesc(ids, LAMBDA c : git_commits[c].timestamp)

RepoLike(c, repo_filter) ==
    ~Given(repo_filter) \/ LikeTerm(RepoOf(c).repo_name, repo_filter)

\* a candidate or result dict; a key the dict does not have is None
Absent == "absent"
Candidate(c, match_type, score, files) ==
    [commit_id |-> c, commit_hash |-> git_commits[c].commit_hash,
     message |-> git_commits[c].message, timestamp |-> git_commits[c].timestamp,
     repo_name |-> RepoOf(c).repo_name, match_type |-> match_type, score |-> score,
     files |-> files, code_snippets |-> None, file_path |-> None,
     function_name |-> None, code_snippet |-> None, language |-> Absent]

(***************************************************************************)
(* Keyword strategy (DeepSearch.keyword_search, and search.search_commits  *)
(* which UnifiedSearch routes "keyword" to)                                *)
(***************************************************************************)
KeywordScore == 600

\* LEFT JOIN code_changes: the commit's rows, or one all-NULL row
NullChange ==
    [commit_id |-> 0, file_path |-> None, change_type |-> "NULL", language |-> "NULL",
     diff_text |-> None, code_after |-> None]
LeftJoinChanges(c) == IF FilesOf(c) = <<>> THEN <<NullChange>> ELSE FilesOf(c)

KeywordWhere(c, cc, query, repo_filter, language) ==
    /\ (query # <<>>) => (LikeTerm(git_commits[c].message, query) \/ LikeTerm(cc.file_path, query))
    /\ RepoLike(c, repo_filter)
    /\ (language # "") => (cc.language = language)

\* the ids the SELECT DISTINCT ... LIMIT of keyword_search and search_commits returns
KeywordCommitIds(query, repo_filter, language, limit) ==
    Take(SelectSeqIdx(ActiveCommitsByTime,
                      LAMBDA c : \E j \in DOMAIN LeftJoinChanges(c) :
                                    KeywordWhere(c, LeftJoinChanges(c)[j], query, repo_filter, language)),
         limit)

\* SELECT file_path, change_type, language, ... FROM code_changes WHERE commit_id = ?
FileDetails(c) ==
    LET fs == FilesOf(c)
    IN  [j \in 1..Len(fs) |->
            [file_path |-> fs[j].file_path, language |-> fs[j].language,
             change_type |-> fs[j].change_type]]

keyword_search(query, repo_filter, language, limit) ==
    LET ids == KeywordCommitIds(query, repo_filter, language, limit)
    IN  [j \in 1..Len(ids) |-> Candidate(ids[j], "keyword", KeywordScore, FileDetails(ids[j]))]

\* search.search_commits: the same rows, with no match_type and no score column
search_commits(query, repo_name, language, limit) ==
    LET ids == KeywordCommitIds(query, repo_name, language, limit)
    IN  [j \in 1..Len(ids) |-> Candidate(ids[j], Absent, -1, FileDetails(ids[j]))]

(***************************************************************************)
(* Code-content strategy                                                   *)
(***************************************************************************)
CodeScore == 1000
context_lines == 2

\* _extract_code_snippet with no search for the query's line: the first lines always
SnippetHead(code, query) ==
    IF code = None \/ code = <<>> THEN <<>> ELSE JoinNl(Take(SplitNl(code), 5))

\* _extract_code_snippet
_extract_code_snippet(code, query) ==
    IF code = None \/ code = <<>> THEN <<>>
    ELSE LET lines == SplitNl(code)
             query_lower == Lower(query)
             hits == {j \in 1..Len(lines) : Contains(query_lower, Lower(lines[j]))}
         IN  IF hits # {}
             THEN LET i == (CHOOSE j \in hits : \A h \in hits : j <= h) - 1
                      start == Max2(0, i - context_lines)
                      end == Min2(Len(lines), i + context_lines + 1)
                  IN  JoinNl(SubSeq(lines, start + 1, end))
             ELSE JoinNl(Take(lines, 5))

\* _group_by_commit with no commit_map: one dict per row, a commit once per file
GroupPerRow(results) ==
    [j \in 1..Len(results) |->
        [results[j] EXCEPT
            !.files = <<[file_path |-> results[j].file_path, language |-> results[j].language,
                         change_type |-> Absent]>>,
            !.code_snippets = <<results[j].code_snippet>>,
            !.file_path = None, !.code_snippet = None, !.language = Absent]]

\* _group_by_commit: one dict per commit_id, in first-seen order
_group_by_commit(results) ==
    LET first(j) == \A k \in 1..(j - 1) : results[k].commit_id # results[j].commit_id
        heads == SelectSeqIdx([j \in 1..Len(results) |-> j], first)
        of(c) == SelectSeqIdx(results, LAMBDA r : r.commit_id = c)
    IN  [h \in 1..Len(heads) |->
            LET r == results[heads[h]]
                rows == of(r.commit_id)
                withFile == SelectSeqIdx(rows, LAMBDA x : x.file_path # None)
                withSnip == SelectSeqIdx(rows, LAMBDA x : x.code_snippet # None)
            IN  [r EXCEPT
                    !.files = [j \in 1..Len(withFile) |->
                                  [file_path |-> withFile[j].file_path,
                                   language |-> withFile[j].language,
                                   change_type |-> Absent]],
                    !.code_snippets = [j \in 1..Len(withSnip) |-> withSnip[j].code_snippet],
                    !.file_path = None, !.code_snippet = None, !.language = Absent]]

\* the WHERE of code_search with no "OR cc.diff_text LIKE ?"
CodeWhereTextOnly(c, cc, query, repo_filter, language) ==
    /\ (query # <<>>) => LikeTerm(cc.code_after, query)
    /\ RepoLike(c, repo_filter)
    /\ (language # "") => (cc.language = language)

CodeWhere(c, cc, query, repo_filter, language) ==
    /\ (query # <<>>) => (LikeTerm(cc.code_after, query) \/ LikeTerm(cc.diff_text, query))
    /\ RepoLike(c, repo_filter)
    /\ (language # "") => (cc.language = language)

\* the rows of git_commits JOIN tracked_repos JOIN code_changes, newest commit first
JoinedChanges ==
    LET ids == ActiveCommitsByTime
    IN  Flatten([j \in 1..Len(ids) |->
                    LET fs == FilesOf(ids[j])
                    IN  [k \in 1..Len(fs) |-> [c |-> ids[j], cc |-> fs[k]]]])

code_search(query, repo_filter, language, limit) ==
    LET hit == SelectSeqIdx(JoinedChanges,
                            LAMBDA row : CodeWhere(row.c, row.cc, query, repo_filter, language))
        rows == [j \in 1..Len(hit) |->
                    [Candidate(hit[j].c, "code_content", CodeScore, <<>>) EXCEPT
                        !.file_path = hit[j].cc.file_path,
                        !.code_snippet = hit[j].cc.code_after,
                        !.language = hit[j].cc.language]]
        limited == Take(Distinct(rows), limit)
        snipped == [j \in 1..Len(limited) |->
                       [limited[j] EXCEPT
                           !.code_snippet = _extract_code_snippet(limited[j].code_snippet, query)]]
    IN  _group_by_commit(snipped)

(***************************************************************************)
(* Semantic strategy                                                       *)
(***************************************************************************)
\* embeddings.semantic_search: [exc, rows]; exc when generate_embedding raises because
\* the model cannot be loaded, or the SELECT raises because commit_embeddings does not
\* exist.  Rows come in id order before the sort.
semantic_search(query, limit) ==
    IF ~model_available \/ ~embeddings_table THEN [exc |-> TRUE, rows |-> <<>>]
    ELSE LET query_embedding == generate_embedding(query)
             ids == SelectSeqIdx([c \in 1..Len(git_commits) |-> c],
                                 LAMBDA c : RepoOf(c).active /\ c \in DOMAIN commit_embeddings)
             commits == [j \in 1..Len(ids) |->
                            [id |-> ids[j],
                             similarity |-> cosine_similarity(query_embedding,
                                                              commit_embeddings[ids[j]])]]
             sorted == SortedReverse([j \in 1..Len(commits) |-> commits[j].similarity])
         IN  [exc |-> FALSE,
              rows |-> Take([j \in 1..Len(commits) |-> commits[sorted[j]]], limit)]

\* similarity * 1.5, in thousandths; NaN * 1.5 is NaN
SemanticScore(similarity) == IF similarity = NaN THEN NaN ELSE similarity * 15

\* semantic_search_commits without its try/except: what semantic_search raises goes up
SemanticUnguarded(query, repo_filter, limit) ==
    LET found == semantic_search(query, limit * 2)
        kept == IF Given(repo_filter)
                THEN SelectSeqIdx(found.rows,
                                  LAMBDA r : Contains(Lower(repo_filter),
                                                      Lower(RepoOf(r.id).repo_name)))
                ELSE found.rows
        top == Take(kept, limit)
    IN  [exc |-> found.exc,
         results |-> [j \in 1..Len(top) |->
                         Candidate(top[j].id, "semantic",
                                   SemanticScore(top[j].similarity), <<>>)]]

\* DeepSearch.semantic_search_commits: [exc, results]; the try/except returns [] on any error
semantic_search_commits(query, repo_filter, limit) ==
    LET found == semantic_search(query, limit * 2)
        kept == IF Given(repo_filter)
                THEN SelectSeqIdx(found.rows,
                                  LAMBDA r : Contains(Lower(repo_filter),
                                                      Lower(RepoOf(r.id).repo_name)))
                ELSE found.rows
        top == Take(kept, limit)
    IN  IF found.exc THEN [exc |-> FALSE, results |-> <<>>]
        ELSE [exc |-> FALSE,
              results |-> [j \in 1..Len(top) |->
                              Candidate(top[j].id, "semantic",
                                        SemanticScore(top[j].similarity), <<>>)]]

(***************************************************************************)
(* Function-name strategy                                                  *)
(***************************************************************************)
FunctionScore == 900
SnippetLen == 300
SupportedLanguages == {"python", "javascript", "typescript", "java", "go", "c", "cpp"}

FunctionWhere(c, cc, repo_filter, language) ==
    /\ cc.code_after # None
    /\ RepoLike(c, repo_filter)
    /\ IF language # "" THEN cc.language = language ELSE cc.language \in SupportedLanguages

\* the dict function_search appends for a row and the first function that matches
FunctionHit(row, func) ==
    [Candidate(row.c, "function", FunctionScore, <<>>) EXCEPT
        !.file_path = row.cc.file_path,
        !.function_name = func.name,
        !.code_snippet = Take(func.code, SnippetLen)]

\* the functions of a row's code whose name holds function_name, without case
MatchingFunctions(row, function_name) ==
    SelectSeq(extract_functions_from_code(row.cc.code_after, row.cc.language),
              LAMBDA func : Contains(Lower(function_name), Lower(func.name)))

\* the loop of function_search over the fetched rows, from row j on: a row with no
\* code is skipped; a row of a commit not seen yet adds one result for its first
\* matching function; the loop stops once limit results are held
RECURSIVE FunctionLoop(_, _, _, _, _, _)
RECURSIVE FunctionRow(_, _, _, _, _, _, _)
RECURSIVE FunctionNext(_, _, _, _, _, _)
FunctionLoop(rows, j, results, seen_commits, function_name, limit) ==
    IF j > Len(rows) THEN results
    ELSE IF rows[j].cc.code_after = <<>>
    THEN FunctionLoop(rows, j + 1, results, seen_commits, function_name, limit)
    ELSE FunctionRow(rows, j, results, seen_commits, function_name, limit,
                     MatchingFunctions(rows[j], function_name))
FunctionRow(rows, j, results, seen_commits, function_name, limit, hits) ==
    IF hits # <<>> /\ rows[j].c \notin seen_commits
    THEN FunctionNext(rows, j, Append(results, FunctionHit(rows[j], hits[1])),
                      seen_commits \cup {rows[j].c}, function_name, limit)
    ELSE FunctionNext(rows, j, results, seen_commits, function_name, limit)
FunctionNext(rows, j, results, seen_commits, function_name, limit) ==
    IF Len(results) >= limit THEN results
    ELSE FunctionLoop(rows, j + 1, results, seen_commits, function_name, limit)

function_search(function_name, repo_filter, language, limit) ==
    LET rows == Take(SelectSeqIdx(JoinedChanges,
                                  LAMBDA row : FunctionWhere(row.c, row.cc, repo_filter, language)),
                     limit * 3)
    IN  FunctionLoop(rows, 1, <<>>, {}, function_name, limit)

(***************************************************************************)
(* Hybrid search and the merger                                            *)
(***************************************************************************)
\* r'function\s+(\w+)', r'method\s+(\w+)', r'class\s+(\w+)', r'def\s+(\w+)'
name_patterns ==
    << <<Lit(<<"f","u","n","c","t","i","o","n">>, 0), Rep("\\s", 1, 0), Rep("\\w", 1, 1)>>,
       <<Lit(<<"m","e","t","h","o","d">>, 0), Rep("\\s", 1, 0), Rep("\\w", 1, 1)>>,
       <<Lit(<<"c","l","a","s","s">>, 0), Rep("\\s", 1, 0), Rep("\\w", 1, 1)>>,
       <<Lit(<<"d","e","f">>, 0), Rep("\\s", 1, 0), Rep("\\w", 1, 1)>> >>

\* r'^[a-zA-Z_][a-zA-Z0-9_]*$'
identifier_pattern == <<One("[a-zA-Z_]", 0), Rep("\\w", 0, 0), EndAnchor>>

\* _extract_function_name: the word after the first cue that has one, else the query
\* itself when it is one identifier, else None
RECURSIVE FirstNamePattern(_, _)
FirstNamePattern(q, p) ==
    IF p > Len(name_patterns) THEN None
    ELSE LET m == ReSearch(name_patterns[p], 1, q)
         IN  IF m.ok THEN Group(m, q, 1) ELSE FirstNamePattern(q, p + 1)

_extract_function_name(query) ==
    LET byCue == FirstNamePattern(Lower(query), 1)
    IN  IF byCue # None THEN byCue
        ELSE IF ReMatch(identifier_pattern, 0, Strip(query)).ok THEN Strip(query)
        ELSE None

\* the word count above which search_all runs the semantic strategy
SemanticMinWords == 2

\* one strategy's run: its name, the list it returned, whether it raised instead
Ran(strategy, results) == [strategy |-> strategy, exc |-> FALSE, results |-> results]
SemanticRan(sem) == [strategy |-> "semantic", exc |-> sem.exc, results |-> sem.results]

\* step 4 of search_all: the function strategy runs when a name was extracted
FunctionList(func_name, repo_filter, language, limit) ==
    IF func_name # None
    THEN <<Ran("function", function_search(func_name, repo_filter, language, limit))>>
    ELSE <<>>

\* the strategies search_all runs, in the order it feeds their lists to the merger
search_all_lists(query, repo_filter, language, limit) ==
    <<Ran("keyword", keyword_search(query, repo_filter, language, limit)),
      Ran("code", code_search(query, repo_filter, language, limit))>>
    \o (IF Len(SplitWs(query)) > SemanticMinWords
        THEN <<SemanticRan(semantic_search_commits(query, repo_filter, limit))>>
        ELSE <<>>)
    \o FunctionList(_extract_function_name(query), repo_filter, language, limit)

\* the merge without the check of the paths already listed
MergeKeepingEveryFile(existing, result) ==
    [existing EXCEPT
        !.score = Max2(existing.score, result.score),
        !.files = existing.files \o result.files,
        !.code_snippets =
            IF result.code_snippets # None
            THEN (IF existing.code_snippets = None THEN <<>> ELSE existing.code_snippets)
                     \o result.code_snippets
            ELSE existing.code_snippets]

\* the merge of one later candidate into the dict first seen for its commit
MergeInto(existing, result) ==
    LET existing_files == {existing.files[j].file_path : j \in DOMAIN existing.files}
        new_files == SelectSeqIdx(result.files, LAMBDA f : f.file_path \notin existing_files)
    IN  [existing EXCEPT
            !.score = Max2(existing.score, result.score),
            !.files = existing.files \o new_files,
            !.code_snippets =
                IF result.code_snippets # None
                THEN (IF existing.code_snippets = None THEN <<>> ELSE existing.code_snippets)
                         \o result.code_snippets
                ELSE existing.code_snippets]

\* the commit_map of _deduplicate_and_rank, as the list of its values in insertion order
RECURSIVE CommitMap(_)
CommitMap(results) ==
    IF results = <<>> THEN <<>>
    ELSE LET before == CommitMap(SubSeq(results, 1, Len(results) - 1))
             result == results[Len(results)]
         IN  IF \E j \in DOMAIN before : before[j].commit_id = result.commit_id
             THEN [j \in DOMAIN before |->
                      IF before[j].commit_id = result.commit_id
                      THEN MergeInto(before[j], result) ELSE before[j]]
             ELSE Append(before, result)

_deduplicate_and_rank(results, limit) ==
    Take(SortDesc(CommitMap(results), LAMBDA r : r.score), limit)

ConcatLists(lists) == Flatten([j \in 1..Len(lists) |-> lists[j].results])

search_all(query, repo_filter, language, limit) ==
    _deduplicate_and_rank(ConcatLists(search_all_lists(query, repo_filter, language, limit)), limit)

(***************************************************************************)
(* Router (core/search_unified.py)                                         *)
(***************************************************************************)
function_indicators == {<<"f","u","n","c","t","i","o","n">>, <<"c","l","a","s","s">>, <<"m","e","t","h","o","d">>, <<"d","e","f"," ">>, <<"a","s","y","n","c"," ","d","e","f">>}
code_indicators == {<<"c","o","d","e">>, <<"i","m","p","l","e","m","e","n","t","a","t","i","o","n">>, <<"a","l","g","o","r","i","t","h","m">>, <<"l","o","g","i","c">>}
SemanticWordCount == 4

\* the router with the code cues tested before the function cues
DetectCodeFirst(query) ==
    LET query_lower == Lower(query)
        words == SplitWs(query)
    IN  IF \E indicator \in code_indicators : Contains(indicator, query_lower)
        THEN "code"
        ELSE IF \E indicator \in function_indicators : Contains(indicator, query_lower)
        THEN "function"
        ELSE IF Len(words) > SemanticWordCount
                /\ ~\E c \in {"(", ")", "{", "}"} : Contains(<<c>>, query)
        THEN "semantic"
        ELSE "hybrid"

_detect_search_type(query) ==
    LET query_lower == Lower(query)
        words == SplitWs(query)
    IN  IF \E indicator \in function_indicators : Contains(indicator, query_lower)
        THEN "function"
        ELSE IF \E indicator \in code_indicators : Contains(indicator, query_lower)
        THEN "code"
        ELSE IF Len(words) > SemanticWordCount
                /\ ~\E c \in {"(", ")", "{", "}"} : Contains(<<c>>, query)
        THEN "semantic"
        ELSE "hybrid"

\* the branch UnifiedSearch.search takes for a search type that is not "auto"
RoutedLists(search_type, query, repo_filter, language, limit) ==
    CASE search_type = "code" ->
            <<Ran("code", code_search(query, repo_filter, language, limit))>>
      [] search_type = "function" ->
            <<Ran("function", function_search(query, repo_filter, language, limit))>>
      [] search_type = "semantic" ->
            <<SemanticRan(semantic_search_commits(query, repo_filter, limit))>>
      [] search_type = "keyword" ->
            <<Ran("keyword", search_commits(query, repo_filter, language, limit))>>
      [] OTHER -> search_all_lists(query, repo_filter, language, limit)

\* what search returns: the type it resolved, the lists of the strategies it ran, the
\* results (one strategy's list as it is, hybrid's lists merged), and whether it raised
Response(search_type, lists, limit) ==
    [search_type |-> search_type,
     lists |-> lists,
     results |-> IF search_type \in {"code", "function", "semantic", "keyword"}
                 THEN lists[1].results
                 ELSE _deduplicate_and_rank(ConcatLists(lists), limit),
     error |-> \E j \in DOMAIN lists : lists[j].exc]

Routed(search_type, query, repo_filter, language, limit) ==
    Response(search_type, RoutedLists(search_type, query, repo_filter, language, limit), limit)

\* UnifiedSearch.search
UnifiedSearch_search(query, search_type, repo_filter, language, limit) ==
    Routed(IF search_type = "auto" THEN _detect_search_type(query) ELSE search_type,
           query, repo_filter, language, limit)

(***************************************************************************)
(* The operations as actions                                               *)
(***************************************************************************)
Queries ==
    { <<>>,
      <<"l","o","g","i","n"," ","f","u","n","c","t","i","o","n">>,
      <<"a","u","t","h">>,
      <<"f","i","x"," ","b","u","g">>,
      <<"w","h","a","t"," ","d","i","d"," ","I"," ","d","o"," ","a","b","o","u","t"," ","a","u","t","h">>,
      <<"f","i","n","d"," ","f","u","n","c","t","i","o","n"," ","l","o","g","i","n">>,
      <<"l","o","g","i","n">>,
      <<"a","d","d"," ","J","W","T"," ","a","u","t","h">> }
SearchTypes == {"auto", "keyword", "code", "function", "semantic", "hybrid"}
RepoFilters == {None, <<"A","P","P">>, <<"n","o","n","e","x","i","s","t","e","n","t">>}
MaxLimit == 2

Track == (\E path \in RepoPaths : install_hook(path)) /\ UNCHANGED env

Untrack == (\E path \in RepoPaths : uninstall_hook(path)) /\ UNCHANGED env

Capture ==
    /\ \E path \in RepoPaths : \E commit_info \in HeadCommits(path) : capture_commit(path, commit_info)
    /\ UNCHANGED env

\* the vectors a caller of store_commit_embedding passes
StoreVectors == {Palette[2]}

Store == (\E c \in DOMAIN git_commits : \E e \in StoreVectors : StoreEmbedding(c, e)) /\ UNCHANGED env

EmbedAll == embed_all_commits /\ UNCHANGED env

\* a search whose semantic strategy ran CREATE TABLE IF NOT EXISTS commit_embeddings, as
\* store_commit_embedding does, before its SELECT
SearchCreatingTable(query, search_type, repo_filter, limit, r) ==
    /\ last' = [NoOp EXCEPT !.op = "search", !.query = query,
                            !.requested = search_type, !.search_type = r.search_type,
                            !.repo_filter = repo_filter, !.limit = limit,
                            !.results = r.results, !.lists = r.lists,
                            !.ran = {r.lists[j].strategy : j \in DOMAIN r.lists},
                            !.error = r.error]
    /\ embeddings_table' = (embeddings_table \/ \E j \in DOMAIN r.lists : r.lists[j].strategy = "semantic")
    /\ UNCHANGED <<tracked_repos, git_commits, code_changes, commit_embeddings>>

\* a search returns r and leaves the store as it is
SearchReturns(query, search_type, repo_filter, limit, r) ==
    /\ last' = [NoOp EXCEPT !.op = "search", !.query = query,
                            !.requested = search_type, !.search_type = r.search_type,
                            !.repo_filter = repo_filter, !.limit = limit,
                            !.results = r.results, !.lists = r.lists,
                            !.ran = {r.lists[j].strategy : j \in DOMAIN r.lists},
                            !.error = r.error]
    /\ UNCHANGED store

\* A search reads the store only: the state after two searches in a row is the state
\* after the second alone, so one search per visit of a store reaches them all.
Search ==
    /\ last.op # "search"
    /\ \E query \in Queries, search_type \in SearchTypes, repo_filter \in RepoFilters,
          limit \in 1..MaxLimit :
           SearchReturns(query, search_type, repo_filter, limit,
                         UnifiedSearch_search(query, search_type, repo_filter, "", limit))
    /\ UNCHANGED env

Next == Track \/ Untrack \/ Capture \/ Store \/ EmbedAll \/ Search

Spec == Init /\ [][Next]_vars

(***************************************************************************)
(* Properties                                                              *)
(***************************************************************************)
Range(xs) == {xs[j] : j \in DOMAIN xs}

\* a search that took the hybrid branch
HybridSearch == last.op = "search" /\ last.search_type = "hybrid"

\* the ranking a result list shows: its commits and their scores, in order
Ranking(results) == [j \in DOMAIN results |-> <<results[j].commit_id, results[j].score>>]

\* C1: whatever the order in which the strategies' candidate lists are fed to
\* _deduplicate_and_rank, the ranked list is the same: the same commits, with the
\* same scores, in the same order.
C1_MergeIsOrderIndependent ==
    HybridSearch =>
        \A p \in Permutations(DOMAIN last.lists) :
            Ranking(_deduplicate_and_rank(
                        ConcatLists([j \in DOMAIN last.lists |-> last.lists[p[j]]]),
                        last.limit))
                = Ranking(last.results)

\* the candidates the strategies returned for a commit, in feed order
CandidatesOf(commit_id) ==
    SelectSeq(ConcatLists(last.lists), LAMBDA r : r.commit_id = commit_id)

\* the strategies' lists that hold a commit
ListsHolding(commit_id) ==
    {j \in DOMAIN last.lists :
        \E k \in DOMAIN last.lists[j].results : last.lists[j].results[k].commit_id = commit_id}

FilePaths(files) == {files[j].file_path : j \in DOMAIN files}

\* C2: a commit found by more than one strategy is returned with the greatest of the
\* strategies' scores, and with the union of their file lists, no path twice.
C2_MergedScoreAndFiles ==
    HybridSearch =>
        \A r \in Range(last.results) :
            Cardinality(ListsHolding(r.commit_id)) > 1 =>
                /\ \A c \in Range(CandidatesOf(r.commit_id)) : r.score >= c.score
                /\ \E c \in Range(CandidatesOf(r.commit_id)) : r.score = c.score
                /\ FilePaths(r.files) =
                       UNION {FilePaths(c.files) : c \in Range(CandidatesOf(r.commit_id))}
                /\ \A i, j \in DOMAIN r.files :
                       r.files[i].file_path = r.files[j].file_path => i = j

\* a hybrid search returned a commit that two strategies found with different scores
\* and with the same file
C2_Witness ==
    /\ HybridSearch
    /\ \E r \in Range(last.results) :
          /\ Cardinality(ListsHolding(r.commit_id)) > 1
          /\ \E c, d \in Range(CandidatesOf(r.commit_id)) :
                /\ c.score < d.score
                /\ FilePaths(c.files) \cap FilePaths(d.files) # {}

\* the id of the stored commit of an active repository with this hash, 0 if none
CommitIdOf(hash) ==
    IF \E c \in DOMAIN git_commits : git_commits[c].commit_hash = hash /\ RepoOf(c).active
    THEN CHOOSE c \in DOMAIN git_commits : git_commits[c].commit_hash = hash /\ RepoOf(c).active
    ELSE 0

\* the position of a commit in a result list, 0 if it is not in it
PositionOf(results, commit_id) ==
    IF \E j \in DOMAIN results : results[j].commit_id = commit_id
    THEN CHOOSE j \in DOMAIN results : results[j].commit_id = commit_id
    ELSE 0

\* the snippets a result carries: its code_snippet, and its code_snippets
SnippetsOf(r) ==
    (IF r.code_snippet = None THEN {} ELSE {r.code_snippet})
        \cup (IF r.code_snippets = None THEN {} ELSE Range(r.code_snippets))

\* an auto-routed, unfiltered search for "login function" on a store that holds
\* commit A and commit B
LoginFunctionSearch ==
    /\ last.op = "search" /\ last.requested = "auto"
    /\ last.query = <<"l","o","g","i","n"," ","f","u","n","c","t","i","o","n">>
    /\ last.repo_filter = None
    /\ CommitIdOf(CommitA.hash) # 0
    /\ CommitIdOf(CommitB.hash) # 0

\* C3: on a store with commit A ("add JWT auth", auth.py with def login(user):) and
\* commit B ("fix typo"), the auto-routed search for "login function" returns A,
\* above B, as a function or code-content match with a snippet that holds "def login".
C3_LoginFunctionFindsA ==
    LoginFunctionSearch =>
        LET a == PositionOf(last.results, CommitIdOf(CommitA.hash))
            b == PositionOf(last.results, CommitIdOf(CommitB.hash))
        IN  /\ a # 0
            /\ b # 0 => a < b
            /\ last.results[a].match_type \in {"function", "code_content"}
            /\ \E snippet \in SnippetsOf(last.results[a]) :
                  Contains(<<"d","e","f"," ","l","o","g","i","n">>, snippet)

AllStrategies == {"keyword", "code", "function", "semantic"}

\* C5: a search that takes the hybrid branch runs all four strategies and hands the
\* lists of all four to the merger, whatever the word count or shape of the query.
C5_HybridRunsAllFour == HybridSearch => last.ran = AllStrategies

\* C6: a run of embed_all_commits that directly follows another leaves the stored
\* vectors as the first left them, and processes no commit.
C6_EmbedAllIdempotent ==
    [][(last.op = "embed_all_commits" /\ last'.op = "embed_all_commits")
          => (commit_embeddings' = commit_embeddings /\ last'.processed = 0)]_vars

\* a second run in a row skipped the commits the first one embedded
C6_Witness ==
    /\ last.op = "embed_all_commits"
    /\ last.prev_processed > 0
    /\ last.processed = 0
    /\ ~last.error

\* no repository name holds the filter, compared without case
NoRepoMatches(repo_filter) ==
    /\ Given(repo_filter)
    /\ \A r \in DOMAIN tracked_repos :
          ~Contains(Lower(repo_filter), Lower(tracked_repos[r].repo_name))

\* C7: a search returns the empty list and raises nothing when no stored commit can
\* be in scope: on a store with no commit, whatever the query, and on any store when
\* the repository filter matches no repository name, whatever the query and strategy.
C7_NothingInScope ==
    (last.op = "search" /\ (git_commits = <<>> \/ NoRepoMatches(last.repo_filter)))
        => (last.results = <<>> /\ ~last.error)

\* a semantic search ran with a filter that matches no repository, on a store whose
\* commits of an active repository have embeddings
C7_Witness ==
    /\ last.op = "search"
    /\ "semantic" \in last.ran
    /\ NoRepoMatches(last.repo_filter)
    /\ \E c \in DOMAIN git_commits : RepoOf(c).active /\ c \in DOMAIN commit_embeddings

\* C10: capturing a commit whose (repository, hash) is already stored changes no
\* table: no git_commits row, no code_changes row, no commit_count, no last_commit_at.
C10_DuplicateCaptureIsNoOp ==
    [][(last'.op = "capture_commit" /\ last'.duplicate) => store' = store]_vars

(***************************************************************************)
(* The function extractor on its own: the inputs are drawn at the start,   *)
(* the store stays empty.                                                  *)
(***************************************************************************)
EmptyStore ==
    /\ tracked_repos = <<>>
    /\ git_commits = <<>>
    /\ code_changes = <<>>
    /\ embeddings_table = FALSE
    /\ commit_embeddings = <<>>

\* bounds of the inputs
MaxLines == 3
MaxHunks == 2

\* the texts of at most n lines out of a set of lines, joined by newlines
RECURSIVE TextsOf(_, _)
TextsOf(lines, n) ==
    IF n = 0 THEN {<<>>}
    ELSE TextsOf(lines, n - 1)
             \cup lines
             \cup {text \o <<"\n">> \o line : text \in TextsOf(lines, n - 1) \ {<<>>}, line \in lines}

SourceLines ==
    { <<"d","e","f"," ","f","(","x",")",":">>, <<" "," "," "," ","r","e","t","u","r","n"," ","x">>, <<>>,
      <<" ","d","e","f"," ","g","(",")",":">>,
      <<"f","u","n","c","t","i","o","n"," ","h","(",")"," ","{">>, <<"}">> }
SourceTexts == TextsOf(SourceLines, MaxLines)
Languages == {"python", "javascript", "java", "c", "go", "text"}

\* decimal digits of a natural number
RECURSIVE Decimal(_)
Decimal(n) == IF n < 10 THEN <<DigitSeq[n + 1]>> ELSE Decimal(n \div 10) \o <<DigitSeq[(n % 10) + 1]>>

\* a hunk is [form, old, start, count]; count = -1 stands for a header that omits it.
\* Hunks are the headers git writes; BrokenHunks are lines that start with "@@" and are
\* not of that form: the closing "@@" is missing, the new range is missing, or both
\* ranges are.
Omitted == -1
Hunks ==
    [form : {"git"}, old : {<<"1","0",",","3">>, <<"1">>}, start : {1, 2, 20},
     count : {Omitted, 0, 1, 2, 5}]
BrokenHunks ==
    [form : {"unclosed", "no_new_range", "no_range"}, old : {<<"1","0",",","3">>}, start : {2},
     count : {5}]

NewRange(h) ==
    <<"+">> \o Decimal(h.start) \o (IF h.count = Omitted THEN <<>> ELSE <<",">> \o Decimal(h.count))

\* the header of a hunk, "@@ -old +start,count @@" as git writes it, and a line under it
HunkText(h) ==
    (CASE h.form = "git" -> <<"@","@"," ","-">> \o h.old \o <<" ">> \o NewRange(h) \o <<" ","@","@">>
       [] h.form = "unclosed" -> <<"@","@"," ","-">> \o h.old \o <<" ">> \o NewRange(h)
       [] h.form = "no_new_range" -> <<"@","@"," ","-">> \o h.old \o <<" ","@","@">>
       [] OTHER -> <<"@","@"," ","@","@">>)
        \o <<"\n","+","x">>
RECURSIVE DiffText(_)
DiffText(hs) ==
    IF hs = <<>> THEN <<>>
    ELSE HunkText(hs[1]) \o (IF Len(hs) = 1 THEN <<>> ELSE <<"\n">> \o DiffText(Tail(hs)))

HunkLists == UNION {[1..n -> Hunks \cup BrokenHunks] : n \in 0..MaxHunks}

\* the lines the hunk headers of a list touch: start .. start + count - 1 of each header
\* of git's form, count 1 if omitted
TouchedLines(hs) ==
    UNION {hs[j].start..(hs[j].start + (IF hs[j].count = Omitted THEN 1 ELSE hs[j].count) - 1) :
             j \in {k \in DOMAIN hs : hs[k].form = "git"}}

SampleDiffs == {DiffText(<<h>>) : h \in {x \in Hunks : x.old = <<"1","0",",","3">> /\ x.start = 2 /\ x.count \in {Omitted, 5}}}

ExtractInputs ==
    [op : {"code"}, code : SourceTexts, language : Languages, diff_text : SampleDiffs]
HunkInputs == {[op |-> "diff", hunks |-> hs, diff_text |-> DiffText(hs)] : hs \in HunkLists}

InitExtract ==
    /\ EmptyStore
    /\ model_available = TRUE
    /\ LoaderIdle
    /\ last \in ExtractInputs \cup HunkInputs

\* extract_functions_from_code on the drawn text and language
ExtractFunctions ==
    /\ last.op = "code"
    /\ last' = [op |-> "extract_functions_from_code", code |-> last.code,
                language |-> last.language,
                spans |-> extract_functions_from_code(last.code, last.language)]
    /\ UNCHANGED <<store, env>>

\* extract_changed_functions on the drawn diff, text and language
ExtractChanged ==
    /\ last.op = "code"
    /\ last' = [op |-> "extract_changed_functions", code |-> last.code,
                language |-> last.language, diff_text |-> last.diff_text,
                spans |-> extract_changed_functions(last.diff_text, last.code, last.language)]
    /\ UNCHANGED <<store, env>>

\* the first loop of extract_changed_functions on the drawn diff
ParseHunks ==
    /\ last.op = "diff"
    /\ last' = [op |-> "changed_lines", hunks |-> last.hunks, diff_text |-> last.diff_text,
                changed_lines |-> changed_lines_of(last.diff_text)]
    /\ UNCHANGED <<store, env>>

NextExtract == ExtractFunctions \/ ExtractChanged \/ ParseHunks

SpecExtract == InitExtract /\ [][NextExtract]_vars

(***************************************************************************)
(* Properties of the extractor                                             *)
(***************************************************************************)
Extracted == last.op \in {"extract_functions_from_code", "extract_changed_functions"}

\* C8: for every source text, the empty one included, and every language tag, every
\* span extract_functions_from_code returns has start_line <= end_line, and every
\* line in the changed_lines of a span extract_changed_functions returns lies within
\* start_line .. end_line of that span.
C8_SpansContained ==
    Extracted =>
        \A j \in DOMAIN last.spans :
            /\ last.spans[j].start_line <= last.spans[j].end_line
            /\ last.op = "extract_changed_functions" =>
                   \A n \in Range(last.spans[j].changed_lines) :
                       last.spans[j].start_line <= n /\ n <= last.spans[j].end_line

\* C9: the changed-line set derived from a diff is the union, over its hunk headers
\* "@@ -a,b +c,d @@", of the lines c .. c+d-1, with d = 1 when the count is omitted.
C9_ChangedLinesOfHunks ==
    (last.op = "changed_lines" /\ \A j \in DOMAIN last.hunks : last.hunks[j].form = "git") =>
        last.changed_lines = TouchedLines(last.hunks)

\* a diff of two hunks was parsed, one header with its count omitted and one with a
\* count of several lines, and both contributed their lines
C9_Witness ==
    /\ last.op = "changed_lines"
    /\ Len(last.hunks) = 2
    /\ last.hunks[1].count = Omitted /\ last.hunks[1].start = 1
    /\ last.hunks[2].count = 5 /\ last.hunks[2].start = 20
    /\ last.changed_lines = {1} \cup 20..24

(***************************************************************************)
(* The classifier on its own: a query is drawn at the start as a phrase of *)
(* words joined by single spaces, the store stays empty.                   *)
(***************************************************************************)
MaxWords == 5

Vocabulary == { <<"f","i","x">>, <<"C","l","a","s","s">>, <<"l","o","g","i","c">>, <<"d","e","f">>, <<"a","s","y","n","c">>, <<"f","(",")">> }

\* the sequences of at most n words
RECURSIVE WordSeqs(_, _)
WordSeqs(words, n) ==
    IF n = 0 THEN {<<>>}
    ELSE WordSeqs(words, n - 1)
             \cup {ws \o <<w>> : ws \in {x \in WordSeqs(words, n - 1) : Len(x) = n - 1}, w \in words}

\* each cue of the router as the words that spell it
CueSeqs ==
    { <<<<"f","u","n","c","t","i","o","n">>>>, <<<<"c","l","a","s","s">>>>, <<<<"m","e","t","h","o","d">>>>, <<<<"d","e","f">>>>, <<<<"a","s","y","n","c">>, <<"d","e","f">>>>,
      <<<<"c","o","d","e">>>>, <<<<"i","m","p","l","e","m","e","n","t","a","t","i","o","n">>>>, <<<<"a","l","g","o","r","i","t","h","m">>>>, <<<<"l","o","g","i","c">>>> }

Phrases ==
    WordSeqs(Vocabulary, MaxWords)
        \cup {<<<<"t","h","e">>>> \o cue \o <<<<"h","e","r","e">>>> : cue \in CueSeqs}

RECURSIVE JoinSp(_)
JoinSp(words) ==
    IF words = <<>> THEN <<>>
    ELSE IF Len(words) = 1 THEN words[1]
    ELSE words[1] \o <<" ">> \o JoinSp(Tail(words))

InitClassify ==
    /\ EmptyStore
    /\ model_available = TRUE
    /\ LoaderIdle
    /\ last \in {[op |-> "query", words |-> ws, query |-> JoinSp(ws)] : ws \in Phrases}

\* UnifiedSearch._detect_search_type on the drawn query
Classify ==
    /\ last.op = "query"
    /\ last' = [op |-> "_detect_search_type", words |-> last.words, query |-> last.query,
                search_type |-> _detect_search_type(last.query)]
    /\ UNCHANGED <<store, env>>

NextClassify == Classify

SpecClassify == InitClassify /\ [][NextClassify]_vars

(***************************************************************************)
(* Properties of the classifier                                            *)
(***************************************************************************)
EndsWith(s, suffix) == Len(s) >= Len(suffix) /\ SubSeq(s, Len(s) - Len(suffix) + 1, Len(s)) = suffix
StartsWith(s, prefix) == Len(s) >= Len(prefix) /\ SubSeq(s, 1, Len(prefix)) = prefix

\* a word of the phrase holds the token, whatever its case
WordHolds(words, token) == \E j \in DOMAIN words : Contains(token, Lower(words[j]))

\* a function cue: function, class or method inside a word, "def" ending a word that
\* another word follows, or "async" ending a word with the next word starting with "def"
HasFunctionCue(words) ==
    \/ WordHolds(words, <<"f","u","n","c","t","i","o","n">>)
    \/ WordHolds(words, <<"c","l","a","s","s">>)
    \/ WordHolds(words, <<"m","e","t","h","o","d">>)
    \/ \E j \in 1..(Len(words) - 1) : EndsWith(Lower(words[j]), <<"d","e","f">>)
    \/ \E j \in 1..(Len(words) - 1) :
          EndsWith(Lower(words[j]), <<"a","s","y","n","c">>) /\ StartsWith(Lower(words[j + 1]), <<"d","e","f">>)

HasCodeCue(words) ==
    \/ WordHolds(words, <<"c","o","d","e">>)
    \/ WordHolds(words, <<"i","m","p","l","e","m","e","n","t","a","t","i","o","n">>)
    \/ WordHolds(words, <<"a","l","g","o","r","i","t","h","m">>)
    \/ WordHolds(words, <<"l","o","g","i","c">>)

HasBracket(words) ==
    \E j \in DOMAIN words : \E i \in DOMAIN words[j] : words[j][i] \in {"(", ")", "{", "}"}

Classified == last.op = "_detect_search_type"

\* C4: the classifier answers every query, applying its rules in fixed priority: a
\* function cue gives "function"; else a code cue gives "code"; else more than 4 words
\* and none of ( ) { } gives "semantic"; else "hybrid". So a query holding both a
\* function cue and a code cue is "function", and a query of at most 4 words with no
\* cue is "hybrid".
C4_ClassifyRuleOrder ==
    Classified =>
        /\ last.search_type \in {"function", "code", "semantic", "hybrid"}
        /\ last.search_type =
               IF HasFunctionCue(last.words) THEN "function"
               ELSE IF HasCodeCue(last.words) THEN "code"
               ELSE IF Len(last.words) > 4 /\ ~HasBracket(last.words) THEN "semantic"
               ELSE "hybrid"
        /\ (HasFunctionCue(last.words) /\ HasCodeCue(last.words)) => last.search_type = "function"
        /\ (Len(last.words) <= 4 /\ ~HasFunctionCue(last.words) /\ ~HasCodeCue(last.words))
               => last.search_type = "hybrid"

\* a query holding both a function cue and a code cue, the code cue first, was classified
C4_Witness ==
    /\ Classified
    /\ Len(last.words) >= 2
    /\ Contains(<<"l","o","g","i","c">>, Lower(last.words[1]))
    /\ Contains(<<"c","l","a","s","s">>, Lower(last.words[2]))
    /\ last.search_type = "function"

(***************************************************************************)
(* The Embedding Index called directly: store_commit_embedding and         *)
(* cosine_similarity with any vector, semantic_search on its own           *)
(***************************************************************************)
\* the vectors a caller hands to store_commit_embedding and cosine_similarity
IndexVectors == {<<0, 0>>, <<4, 3>>, <<0, 5>>}

StoreAny ==
    /\ \E c \in DOMAIN git_commits : \E e \in IndexVectors : StoreEmbedding(c, e)
    /\ UNCHANGED env

\* cosine_similarity(a, b): one division, no test of the norms and no raise
Cosine ==
    /\ \E a \in IndexVectors, b \in IndexVectors :
          last' = [NoOp EXCEPT !.op = "cosine_similarity", !.a = a, !.b = b,
                               !.similarity = cosine_similarity(a, b)]
    /\ UNCHANGED <<store, env>>

\* embeddings.semantic_search(query, limit) called as `devlog search --semantic`, the review
\* pipeline and the chat tool call it: what it raises reaches the caller
IndexSearch ==
    /\ last.op # "semantic_search"
    /\ \E query \in Queries, limit \in 1..MaxLimit :
          LET found == semantic_search(query, limit)
          IN  last' = [NoOp EXCEPT !.op = "semantic_search", !.query = query,
                                   !.limit = limit, !.results = found.rows,
                                   !.error = found.exc]
    /\ UNCHANGED <<store, env>>

\* the semantic strategy of the engine, on the same stores
SemanticStrategy ==
    /\ last.op # "search"
    /\ \E query \in Queries, limit \in 1..MaxLimit :
          SearchReturns(query, "semantic", None, limit,
                        UnifiedSearch_search(query, "semantic", None, "", limit))
    /\ UNCHANGED env

NextIndex ==
    Track \/ Untrack \/ Capture \/ StoreAny \/ EmbedAll \/ Cosine \/ IndexSearch \/ SemanticStrategy

SpecIndex == Init /\ [][NextIndex]_vars

(***************************************************************************)
(* The code strategies called on their own (DeepSearch.code_search and     *)
(* DeepSearch.function_search), on stores that also hold a commit which    *)
(* deletes a file: get_file_diff leaves code_after = '' for such a file    *)
(***************************************************************************)
\* a commit of /home/dev/lib that deletes legacy.py and rewrites api.py
CommitD ==
    [hash |-> "d4e6", message |-> <<"r","e","m","o","v","e"," ","l","e","g","a","c","y">>, timestamp |-> 4,
     changed_files |->
        << [path |-> <<"l","e","g","a","c","y",".","p","y">>, change_type |-> "deleted",
            diff |-> <<"@","@"," ","-","1"," ","+","0",",","0"," ","@","@","\n","-","d","e","f"," ","l","o","g","i","n","(","u",")",":"," ","p","a","s","s">>,
            code_after |-> <<>>],
           [path |-> <<"a","p","i",".","p","y">>, change_type |-> "modified",
            diff |-> <<"@","@"," ","-","1"," ","+","1",",","7"," ","@","@","\n","+","d","e","f"," ","l","o","g","o","u","t","(","u",")",":">>,
            code_after |-> <<"i","m","p","o","r","t"," ","o","s","\n","\n","\n","d","e","f"," ","l","o","g","o","u","t","(","u",")",":","\n"," "," "," "," ","p","a","s","s","\n","\n","#"," ","e","n","d">>] >>]

\* the commits HEAD can be in each repository, the deleting commit among them
CodeCommits(path) == IF path = "/home/dev/app" THEN {CommitA} ELSE {CommitC, CommitD}

CodeQueries ==
    { <<>>,
      <<"L","O","G","I","N">>,
      <<"l","o","g","o","u","t">>,
      <<"p","a","s","s">>,
      <<":","\n"," ">>,
      <<"E","N","D">>,
      <<"a","u","t","h">> }
FunctionNames == { <<"L","O","G","I","N">>, <<"l","o","g">>, <<"a","u","t","h">> }
CodeLanguages == {"", "python"}
Strategies == {"code_search", "function_search"}
CodeFilters == {None, <<"L","I","B">>}

\* the code_changes rows a store holds before the last capture here: one more than elsewhere
MaxCodeChanges == MaxChanges + 1

CaptureCode ==
    /\ \E path \in RepoPaths : \E commit_info \in CodeCommits(path) :
          CaptureWithin(path, commit_info, MaxCodeChanges)
    /\ UNCHANGED env

\* a strategy returns results and leaves the store as it is
StrategyReturns(op, query, repo_filter, language, limit, results) ==
    /\ last' = [NoOp EXCEPT !.op = op, !.query = query, !.repo_filter = repo_filter,
                            !.language = language, !.limit = limit, !.results = results]
    /\ UNCHANGED store

\* The strategies read the store only, so one call per visit of a store reaches every
\* state a sequence of calls does.
CodeSearch ==
    /\ last.op \notin Strategies
    /\ \E query \in CodeQueries, repo_filter \in CodeFilters, language \in CodeLanguages,
          limit \in 1..MaxLimit :
           StrategyReturns("code_search", query, repo_filter, language, limit,
                           code_search(query, repo_filter, language, limit))
    /\ UNCHANGED env

FunctionSearch ==
    /\ last.op \notin Strategies
    /\ \E function_name \in FunctionNames, repo_filter \in CodeFilters,
          language \in CodeLanguages, limit \in 1..MaxLimit :
           StrategyReturns("function_search", function_name, repo_filter, language, limit,
                           function_search(function_name, repo_filter, language, limit))
    /\ UNCHANGED env

NextCode == Track \/ Untrack \/ CaptureCode \/ CodeSearch \/ FunctionSearch

SpecCode == Init /\ [][NextCode]_vars

(***************************************************************************)
(* The semantic strategy with a repository filter                          *)
(* (DeepSearch.semantic_search_commits) and the search of each type        *)
(* (UnifiedSearch.search), on stores of up to three embedded commits in    *)
(* two repositories, one of the commits with two files                     *)
(***************************************************************************)
FilterQueries == { <<"a","u","t","h">>, <<"l","o","g","i","n">> }
NameFilters == { <<"A","P","P">>, <<"L","I","B">> }

FilteredSemantic ==
    /\ last.op # "search"
    /\ \E query \in FilterQueries, repo_filter \in NameFilters, limit \in 1..MaxLimit :
          SearchReturns(query, "semantic", repo_filter, limit,
                        UnifiedSearch_search(query, "semantic", repo_filter, "", limit))
    /\ UNCHANGED env

\* UnifiedSearch.search with each search type named, on the same stores
ResultQueries ==
    { <<"u">>, <<"p","y">>, <<"l","o","g">>,
      <<"a","d","d"," ","J","W","T"," ","a","u","t","h">> }
NamedTypes == {"keyword", "code", "function", "semantic", "hybrid"}

NamedSearch ==
    /\ last.op # "search"
    /\ \E query \in ResultQueries, search_type \in NamedTypes, limit \in 1..MaxLimit :
          SearchReturns(query, search_type, None, limit,
                        UnifiedSearch_search(query, search_type, None, "", limit))
    /\ UNCHANGED env

NextFilter ==
    Track \/ Untrack \/ CaptureCode \/ Store \/ EmbedAll \/ FilteredSemantic \/ NamedSearch

SpecFilter == Init /\ [][NextFilter]_vars

(***************************************************************************)
(* get_model called by concurrent threads (embeddings.py 8-17): the global *)
(* _model is tested, assigned and read in separate steps, under no lock    *)
(***************************************************************************)
\* "if _model is None:", the test a caller makes on entering get_model
get_model_test(t) ==
    /\ pc[t] = "idle"
    /\ pc' = [pc EXCEPT ![t] = IF _model = NotLoaded THEN "load" ELSE "return"]
    /\ UNCHANGED <<_model, loads, got>>

\* "_model = SentenceTransformer(...)": a new instance, numbered by the count of loads;
\* the constructor raises when the model cannot be loaded
get_model_load(t) ==
    /\ pc[t] = "load"
    /\ IF model_available
       THEN /\ loads' = loads + 1
            /\ _model' = loads + 1
            /\ pc' = [pc EXCEPT ![t] = "return"]
            /\ got' = got
       ELSE /\ pc' = [pc EXCEPT ![t] = "idle"]
            /\ UNCHANGED <<_model, loads, got>>

\* "return _model": the caller gets what the global holds now
get_model_return(t) ==
    /\ pc[t] = "return"
    /\ got' = [got EXCEPT ![t] = _model]
    /\ pc' = [pc EXCEPT ![t] = "idle"]
    /\ UNCHANGED <<_model, loads>>

Test == (\E t \in Callers : get_model_test(t)) /\ UNCHANGED <<store, last, model_available>>

Load == (\E t \in Callers : get_model_load(t)) /\ UNCHANGED <<store, last, model_available>>

Return == (\E t \in Callers : get_model_return(t)) /\ UNCHANGED <<store, last, model_available>>

NextLoad == Test \/ Load \/ Return

SpecLoad == Init /\ [][NextLoad]_vars

(***************************************************************************)
(* Properties of the engine under a failing model, of the embedding index, *)
(* of tracking and of the merger                                           *)
(***************************************************************************)
\* the lists of a search that strategies other than the semantic one returned
OtherLists == SelectSeq(last.lists, LAMBDA l : l.strategy # "semantic")

\* C11: when the embedding model is unavailable the semantic strategy returns the
\* empty list and raises nothing, and a hybrid search returns what the merge of the
\* other strategies' candidates gives.
C11_SemanticDegrades ==
    (last.op = "search" /\ ~model_available) =>
        /\ ~last.error
        /\ \A j \in DOMAIN last.lists :
              last.lists[j].strategy = "semantic" => last.lists[j].results = <<>>
        /\ HybridSearch =>
              last.results = _deduplicate_and_rank(ConcatLists(OtherLists), last.limit)

\* with the model unavailable and vectors stored for commits of an active repository, a
\* hybrid search ran the semantic strategy and returned commits the others found
C11_Witness ==
    /\ HybridSearch
    /\ ~model_available
    /\ "semantic" \in last.ran
    /\ \E c \in DOMAIN git_commits : RepoOf(c).active /\ c \in DOMAIN commit_embeddings
    /\ last.results # <<>>

ZeroNorm(v) == Norm(v) = 0

\* the stored vectors semantic_search reads: those of the commits of active repositories
VectorsRead ==
    {commit_embeddings[c] : c \in {d \in DOMAIN commit_embeddings : RepoOf(d).active}}

\* a query that reached the similarity step with a zero-norm stored vector to compare
ComparedZeroNorm ==
    /\ model_available
    /\ embeddings_table
    /\ \E v \in VectorsRead : ZeroNorm(v)

\* C12: a zero-norm vector at the similarity step is an error the caller sees:
\* cosine_similarity raises for a zero-norm argument, and a search that compares the
\* query with a zero-norm stored vector ends in an error instead of a result list.
C12_ZeroNormIsAnError ==
    /\ (last.op = "cosine_similarity" /\ (ZeroNorm(last.a) \/ ZeroNorm(last.b))) => last.error
    /\ (last.op = "semantic_search" /\ ComparedZeroNorm) => last.error
    /\ (last.op = "search" /\ "semantic" \in last.ran /\ ComparedZeroNorm) => last.error

\* the length of the vectors the model generates
Dimension == Len(Palette[1])

\* C13: through any sequence of store_commit_embedding calls and embed_all_commits runs a
\* commit has at most one embedding row, a whole vector; a store call leaves the commit
\* with the vector it was passed, whatever the commit had, and touches no other row; an
\* embed_all_commits run stores the generated vector of each commit that had none and
\* touches no row that existed; nothing else writes a row.
C13_StoreIsUpsert ==
    [][/\ \A c \in DOMAIN commit_embeddings' : Len(commit_embeddings'[c]) = Dimension
       /\ last'.op = "store_commit_embedding" =>
             /\ DOMAIN commit_embeddings' = DOMAIN commit_embeddings \cup {last'.commit_id}
             /\ commit_embeddings'[last'.commit_id] = last'.embedding
             /\ \A c \in DOMAIN commit_embeddings :
                   c # last'.commit_id => commit_embeddings'[c] = commit_embeddings[c]
       /\ (last'.op = "embed_all_commits" /\ ~last'.error) =>
             /\ DOMAIN commit_embeddings' = DOMAIN git_commits \cup DOMAIN commit_embeddings
             /\ \A c \in DOMAIN commit_embeddings : commit_embeddings'[c] = commit_embeddings[c]
             /\ \A c \in DOMAIN commit_embeddings' \ DOMAIN commit_embeddings :
                   commit_embeddings'[c] = generate_embedding(EmbeddingText(c))
       /\ (last'.op \notin {"store_commit_embedding", "embed_all_commits"} \/ last'.error) =>
             commit_embeddings' = commit_embeddings
      ]_vars

\* a store call replaced the different vector a commit had, while another commit keeps
\* the vector embed_all_commits generated for it
C13_Witness ==
    /\ last.op = "store_commit_embedding"
    /\ last.replaced # <<>>
    /\ last.replaced # last.embedding
    /\ commit_embeddings[last.commit_id] = last.embedding
    /\ \E c \in DOMAIN commit_embeddings :
          /\ c # last.commit_id
          /\ commit_embeddings[c] = generate_embedding(EmbeddingText(c))
          /\ commit_embeddings[c] # last.embedding

\* the commits a search returned, in the strategies' lists and in the result list
ReturnedCommits(op) ==
    {op.results[j].commit_id : j \in DOMAIN op.results}
        \cup UNION {{op.lists[j].results[k].commit_id : k \in DOMAIN op.lists[j].results} :
                       j \in DOMAIN op.lists}

\* C14: untracking a repository clears its active flag and nothing else: no repository
\* row, commit, code change or embedding is deleted or changed; tracking a repository
\* that was active again right after its untracking gives back the table of before the
\* untracking, so that searches see the store they saw then; and no search, whatever its strategy, returns a commit of a repository
\* whose flag is clear.
C14_UntrackOnlyHides ==
    [][/\ last'.op = "uninstall_hook" =>
             /\ <<git_commits, code_changes, embeddings_table, commit_embeddings>>'
                    = <<git_commits, code_changes, embeddings_table, commit_embeddings>>
             /\ Len(tracked_repos') = Len(tracked_repos)
             /\ \A r \in DOMAIN tracked_repos :
                   tracked_repos'[r] =
                       [tracked_repos[r] EXCEPT
                           !.active = @ /\ tracked_repos[r].repo_path # last'.path]
       /\ (/\ last.op = "uninstall_hook"
           /\ last'.op = "install_hook"
           /\ last'.path = last.path
           /\ RepoIds(last.path) # {}
           /\ RepoIds(last.path) \subseteq last.was_active) =>
             /\ <<git_commits, code_changes, embeddings_table, commit_embeddings>>'
                    = <<git_commits, code_changes, embeddings_table, commit_embeddings>>
             /\ Len(tracked_repos') = Len(tracked_repos)
             /\ \A r \in DOMAIN tracked_repos :
                   tracked_repos'[r] =
                       [tracked_repos[r] EXCEPT !.active = r \in last.was_active]
       /\ last'.op = "search" =>
             \A c \in ReturnedCommits(last') :
                 tracked_repos'[git_commits'[c].repo_id].active
      ]_vars

\* a hybrid search for a word that the diff of a commit of an untracked repository holds,
\* on a store where that commit has a vector, returned commits of a tracked repository
C14_Witness ==
    /\ HybridSearch
    /\ last.query # <<>>
    /\ last.results # <<>>
    /\ \E k \in DOMAIN code_changes :
          /\ code_changes[k].commit_id \in DOMAIN commit_embeddings
          /\ ~RepoOf(code_changes[k].commit_id).active
          /\ Contains(Lower(last.query), Lower(code_changes[k].diff_text))

\* C15: however many threads call get_model at the same time, the model is
\* constructed at most once in the process and every caller that got an instance got
\* the same one.
C15_ModelLoadedOnce ==
    /\ loads <= 1
    /\ \A t \in Callers, u \in Callers :
          (got[t] # NotLoaded /\ got[u] # NotLoaded) => got[t] = got[u]

\* the commits the strategies of a search found
FoundCommits == {r.commit_id : r \in Range(ConcatLists(last.lists))}

\* C16: the merged list of a hybrid search is in descending order of score, commits of
\* equal score in descending order of commit timestamp, and holds the first `limit`
\* commits of that order.
C16_RankedByScoreThenTime ==
    HybridSearch =>
        /\ Len(last.results) = Min2(last.limit, Cardinality(FoundCommits))
        /\ \A i \in DOMAIN last.results, j \in DOMAIN last.results :
              i < j =>
                  \/ last.results[i].score > last.results[j].score
                  \/ /\ last.results[i].score = last.results[j].score
                     /\ last.results[i].timestamp >= last.results[j].timestamp

\* C17: the match type of a merged result is the match type of a candidate of its commit
\* that has the greatest score, the score the result carries, whichever candidate the
\* merger saw first.
C17_MatchTypeOfBestCandidate ==
    HybridSearch =>
        \A r \in Range(last.results) :
            \E c \in Range(CandidatesOf(r.commit_id)) :
                /\ c.score = r.score
                /\ c.match_type = r.match_type

\* the evidence snippets a candidate or a result carries, in order: the code_snippets list
\* of the code-content strategy, the code_snippet of the function-name strategy
SnippetList(r) ==
    (IF r.code_snippets = None THEN <<>> ELSE r.code_snippets)
        \o (IF r.code_snippet = None THEN <<>> ELSE <<r.code_snippet>>)

\* C18: the snippets of a merged result are the snippets of all the candidates of its
\* commit, one after the other in feed order, none dropped and none merged with an
\* equal one.
C18_SnippetsConcatenated ==
    HybridSearch =>
        \A r \in Range(last.results) :
            LET cs == CandidatesOf(r.commit_id)
            IN  SnippetList(r) = Flatten([j \in DOMAIN cs |-> SnippetList(cs[j])])

\* the commits semantic_search compares the query with: those of active repositories
\* that have a stored vector
Embedded == {c \in DOMAIN commit_embeddings : RepoOf(c).active}

SimilarityTo(query, c) == cosine_similarity(generate_embedding(query), commit_embeddings[c])

\* C19: semantic_search(query, limit), with the model loaded and no zero-norm vector
\* stored, returns exactly min(limit, N) of the N commits of active repositories that
\* have a vector, each once and with its similarity to the query, in non-increasing
\* order of similarity, and no commit left out is more similar than one returned.
C19_TopSimilar ==
    (last.op = "semantic_search" /\ model_available /\ \A c \in Embedded : ~ZeroNorm(commit_embeddings[c])) =>
        /\ ~last.error
        /\ Len(last.results) = Min2(last.limit, Cardinality(Embedded))
        /\ \A j \in DOMAIN last.results :
              /\ last.results[j].id \in Embedded
              /\ last.results[j].similarity = SimilarityTo(last.query, last.results[j].id)
        /\ \A i \in DOMAIN last.results, j \in DOMAIN last.results :
              i < j => /\ last.results[i].id # last.results[j].id
                       /\ last.results[i].similarity >= last.results[j].similarity
        /\ \A c \in Embedded \ {last.results[j].id : j \in DOMAIN last.results} :
              \A j \in DOMAIN last.results :
                  SimilarityTo(last.query, c) <= last.results[j].similarity

\* the operations that write the store: the capture side (core/git_hooks.py: tracking,
\* untracking and capture) and the generation of embeddings (embed_all_commits and the
\* store_commit_embedding it calls)
Writers ==
    {"install_hook", "uninstall_hook", "capture_commit", "store_commit_embedding",
     "embed_all_commits"}

\* C20: no search, whatever strategies it runs (keyword, code-content, function-name,
\* semantic or the hybrid of them), changes a repository, commit, code change or
\* embedding row; the store changes only in a step of the capture side or of the
\* generation of embeddings.
C20_SearchesOnlyRead ==
    [][/\ last'.op = "search" => store' = store
       /\ store' # store => last'.op \in Writers
      ]_vars

\* a search whose keyword and semantic strategies both returned commits, on a store
\* with vectors
C20_Witness ==
    /\ last.op = "search"
    /\ embeddings_table
    /\ \E j \in DOMAIN last.lists :
          last.lists[j].strategy = "semantic" /\ last.lists[j].results # <<>>
    /\ \E j \in DOMAIN last.lists :
          last.lists[j].strategy = "keyword" /\ last.lists[j].results # <<>>

(***************************************************************************)
(* Properties of the extractor, of the code strategies, of embedding       *)
(* generation, of the repository counters and of the result lists          *)
(***************************************************************************)
\* a line that opens a Python definition, and the width of a line's indentation
IsDefinition(line) == ReMatch(func_pattern, 3, line).ok
Indentation(line) == Len(line) - Len(LStrip(line))

\* line k opens a definition in the body of the definition line i opens: every line
\* after i up to k is blank or indented deeper than line i
NestedIn(lines, i, k) ==
    /\ i < k
    /\ IsDefinition(lines[i])
    /\ IsDefinition(lines[k])
    /\ \A n \in (i + 1)..k : Strip(lines[n]) = <<>> \/ Indentation(lines[n]) > Indentation(lines[i])

\* C21: the Python extractor returns a definition nested in another definition as a span
\* of its own, next to the span of the enclosing definition and contained in it.
C21_NestedSpansReturned ==
    (last.op = "extract_functions_from_code" /\ last.language = "python") =>
        LET lines == SplitLines(last.code)
        IN  \A i \in DOMAIN lines, k \in DOMAIN lines :
                NestedIn(lines, i, k) =>
                    \E a \in DOMAIN last.spans, b \in DOMAIN last.spans :
                        /\ last.spans[a].start_line = i
                        /\ last.spans[b].start_line = k
                        /\ last.spans[b].end_line <= last.spans[a].end_line

\* the lines of a span
SpanLines(span) == span.start_line..span.end_line

\* a span without what extract_changed_functions attaches to it
Bare(span) ==
    [name |-> span.name, code |-> span.code,
     start_line |-> span.start_line, end_line |-> span.end_line]

\* C22: extract_changed_functions returns the spans of extract_functions_from_code on the
\* post-change text whose line range meets the changed-line set of the diff, each of
\* them once and in extraction order, and none of the others; the changed_lines of a
\* returned span are the lines of its range in the changed-line set, in increasing order.
C22_ChangedSpansSelected ==
    last.op = "extract_changed_functions" =>
        LET all == extract_functions_from_code(last.code, last.language)
            changed == changed_lines_of(last.diff_text)
            touched == {j \in DOMAIN all : SpanLines(all[j]) \cap changed # {}}
        IN  /\ Len(last.spans) = Cardinality(touched)
            /\ \E at \in [DOMAIN last.spans -> touched] :
                  /\ \A i \in DOMAIN last.spans, j \in DOMAIN last.spans : i < j => at[i] < at[j]
                  /\ \A j \in DOMAIN last.spans : Bare(last.spans[j]) = all[at[j]]
            /\ \A j \in DOMAIN last.spans :
                  LET lines == last.spans[j].changed_lines
                  IN  /\ Range(lines) = SpanLines(last.spans[j]) \cap changed
                      /\ \A m \in DOMAIN lines, n \in DOMAIN lines : m < n => lines[m] < lines[n]

\* of the two functions of a text the diff touches the first only, and only some of its
\* lines: the first is returned with those lines, the second is not returned
C22_Witness ==
    /\ last.op = "extract_changed_functions"
    /\ Len(extract_functions_from_code(last.code, last.language)) = 2
    /\ Len(last.spans) = 1
    /\ last.spans[1].start_line = 1
    /\ last.spans[1].changed_lines # <<>>
    /\ Range(last.spans[1].changed_lines) # SpanLines(last.spans[1])

\* C23: a line of a diff that starts with "@@" and is not a hunk header of the form
\* "@@ -a,b +c,d @@" adds no line to the changed-line set, and the hunk headers of the
\* same diff add theirs.
C23_BrokenHeaderAddsNothing ==
    (last.op = "changed_lines" /\ \E j \in DOMAIN last.hunks : last.hunks[j].form # "git") =>
        last.changed_lines = TouchedLines(last.hunks)

\* whether a code_changes row has no post-change text: NULL, or the '' capture stores
MissingText(cc) == cc.code_after = None \/ cc.code_after = <<>>

\* the code_changes rows of a commit with a path
ChangesAt(commit_id, file_path) ==
    {k \in DOMAIN code_changes :
        code_changes[k].commit_id = commit_id /\ code_changes[k].file_path = file_path}

\* the files a strategy's result names: its files list, or its one file_path
NamedFiles(r) ==
    IF r.file_path # None THEN {r.file_path} ELSE {r.files[k].file_path : k \in DOMAIN r.files}

\* the rows code_search and function_search read, as a set
ReadRows == {JoinedChanges[k] : k \in DOMAIN JoinedChanges}

\* C24 (as stated): a code change with no post-change text is outside both code strategies:
\* no result of code_search or function_search names its file, and every returned commit
\* has a named file with text.
C24_MissingTextExcluded ==
    (last.op \in {"code_search", "function_search"}) =>
        \A j \in DOMAIN last.results :
            \A f \in NamedFiles(last.results[j]) :
                \A k \in ChangesAt(last.results[j].commit_id, f) : ~MissingText(code_changes[k])

\* C24: a code change with no post-change text is never named by function_search; code_search
\* names it exactly through its diff text: when named, the query is empty or in the diff and
\* the snippet listed for it is empty, and when the query is in its diff, its repository and
\* language pass the filters and the limit holds every row read, its commit is returned
\* with the file named.
C24_MissingTextFoundByDiffOnly ==
    /\ (last.op = "function_search") =>
          \A j \in DOMAIN last.results :
              \A k \in ChangesAt(last.results[j].commit_id, last.results[j].file_path) :
                  ~MissingText(code_changes[k])
    /\ (last.op = "code_search") =>
          /\ \A j \in DOMAIN last.results :
                LET r == last.results[j]
                IN  /\ Len(r.code_snippets) = Len(r.files)
                    /\ \A f \in DOMAIN r.files :
                          \A k \in ChangesAt(r.commit_id, r.files[f].file_path) :
                              MissingText(code_changes[k]) =>
                                  /\ last.query = <<>> \/ LikeTerm(code_changes[k].diff_text, last.query)
                                  /\ r.code_snippets[f] = <<>>
          /\ \A row \in ReadRows :
                (/\ MissingText(row.cc)
                 /\ last.query # <<>>
                 /\ LikeTerm(row.cc.diff_text, last.query)
                 /\ RepoLike(row.c, last.repo_filter)
                 /\ last.language \in {"", row.cc.language}
                 /\ Len(JoinedChanges) <= last.limit)
                => \E j \in DOMAIN last.results :
                      /\ last.results[j].commit_id = row.c
                      /\ row.cc.file_path \in NamedFiles(last.results[j])

\* code_search has returned a commit for a query found in the diff of its deleted file and
\* in the text of its other file: both files are listed, the deleted one with no snippet
C24_Witness ==
    /\ last.op = "code_search"
    /\ last.query # <<>>
    /\ \E j \in DOMAIN last.results :
          LET r == last.results[j]
          IN  /\ \E f \in DOMAIN r.files :
                    /\ \E k \in ChangesAt(r.commit_id, r.files[f].file_path) :
                          MissingText(code_changes[k])
                    /\ r.code_snippets[f] = <<>>
              /\ \E f \in DOMAIN r.files :
                    /\ \E k \in ChangesAt(r.commit_id, r.files[f].file_path) :
                          ~MissingText(code_changes[k])
                    /\ r.code_snippets[f] # <<>>

\* the commits of active repositories with a code change that has text, a language the
\* strategy scans (the one asked for, when one is) and a definition whose name holds the
\* name searched for, without case
CommitsDefining(function_name, repo_filter, language) ==
    {row.c : row \in {x \in ReadRows :
                        /\ ~MissingText(x.cc)
                        /\ RepoLike(x.c, repo_filter)
                        /\ IF language # "" THEN x.cc.language = language
                           ELSE x.cc.language \in SupportedLanguages
                        /\ MatchingFunctions(x, function_name) # <<>>}}

\* C25: function_search returns each commit at most once, and when it returns fewer than
\* limit commits, every commit with a code change defining a matching name is returned.
C25_FewerThanLimitIsComplete ==
    (last.op = "function_search") =>
        /\ \A j, k \in DOMAIN last.results :
              (last.results[j].commit_id = last.results[k].commit_id) => (j = k)
        /\ (Len(last.results) < last.limit) =>
              \A c \in CommitsDefining(last.query, last.repo_filter, last.language) :
                  \E j \in DOMAIN last.results : last.results[j].commit_id = c

\* the numbers of the lines of a text that hold the query, without case
LinesHolding(query, text) ==
    LET lines == SplitNl(text)
    IN  {i \in 1..Len(lines) : Contains(Lower(query), Lower(lines[i]))}

\* lines from..to of a text, clipped at its start and end
LineWindow(text, from, to) ==
    LET lines == SplitNl(text)
    IN  JoinNl(SubSeq(lines, Max2(1, from), Min2(Len(lines), to)))

\* the post-change texts a snippet of a result can come from, with the snippet
SnippetSources(r) ==
    UNION {{[text |-> code_changes[k].code_after, snippet |-> r.code_snippets[f]] :
               k \in ChangesAt(r.commit_id, r.files[f].file_path)} : f \in DOMAIN r.files}

C27_EmbedAllEmbedsEveryCommit ==
    [][(last'.op = "embed_all_commits" /\ model_available)
          => \A c \in DOMAIN git_commits' : c \in DOMAIN commit_embeddings']_vars

\* the git_commits rows of a repository
CommitsOf(repo_id) == {c \in DOMAIN git_commits : git_commits[c].repo_id = repo_id}

\* C28: every repository's commit_count is the number of git_commits rows stored for it.
C28_CommitCountIsRowCount ==
    \A r \in DOMAIN tracked_repos : tracked_repos[r].commit_count = Cardinality(CommitsOf(r))

\* the commits the filtered semantic strategy chooses from: those of active repositories
\* whose name holds the filter, with a stored vector
EmbeddedIn(repo_filter) == {c \in Embedded : RepoLike(c, repo_filter)}

\* C29: the semantic strategy with a repository filter, with the model loaded and vectors
\* stored, returns min(limit, M) of the M embedded commits of the active repositories the
\* filter names, and no such commit left out is more similar to the query than one returned.
C29_FilteredTopSimilar ==
    (/\ last.op = "search" /\ last.search_type = "semantic" /\ last.repo_filter # None
     /\ model_available /\ embeddings_table) =>
        LET M == EmbeddedIn(last.repo_filter)
            found == {last.results[j].commit_id : j \in DOMAIN last.results}
        IN  /\ Len(last.results) = Min2(last.limit, Cardinality(M))
            /\ found \subseteq M
            /\ \A c \in M \ found : \A d \in found :
                  SimilarityTo(last.query, c) <= SimilarityTo(last.query, d)

\* C30: the list a search of a named type returns holds no commit twice and has at most
\* limit entries.
C30_ResultsDistinctAndLimited ==
    (last.op = "search") =>
        /\ Len(last.results) <= last.limit
        /\ \A j, k \in DOMAIN last.results :
              (last.results[j].commit_id = last.results[k].commit_id) => (j = k)

\* the commits of active repositories, those a search can return
ActiveCommits == {c \in DOMAIN git_commits : RepoOf(c).active}

\* a search has returned limit commits of a store that holds more, among them a commit
\* that two of its strategies found or that matched in two of its files
C30_Witness ==
    /\ last.op = "search"
    /\ Len(last.results) = last.limit
    /\ Cardinality(ActiveCommits) > last.limit
    /\ \E j \in DOMAIN last.results :
          \/ Cardinality(ListsHolding(last.results[j].commit_id)) > 1
          \/ Len(last.results[j].files) > 1

=============================================================================
